---- MODULE Spec2Model ----
(***************************************************************************)
(* Snapshot-diff engine, diff filter, collection orchestrators and alert   *)
(* dispatcher of stock_info.                                               *)
(*                                                                         *)
(* Scalars are strings.  A record (a Python dict of scalars and nested     *)
(* dicts) is a function from its leaf paths to scalars; a changed_key, a   *)
(* dotted path 'a.b', is the sequence <<"a","b">> and '' is <<>> (keys     *)
(* hold no '.').                                                           *)
(***************************************************************************)
EXTENDS Integers, Sequences, FiniteSets, TLC

VARIABLES
    mode,       \* which program runs: "diff", "edit", "alert", "queue", "dispatch", "pair"
    \* -- the diff engine applied to one pair of records
    dPrev,      \* CollectorBase._latest: <<>> is None, <<r>> the record r
    dCur,       \* CollectorBase._current_data
    dConf,      \* the entity type's capability set (hierarchy, filter_keys)
    dDone,      \* get_diffs has run
    dOut,       \* what each get_diffs returned
    \* -- the alerter of the securities collection on one diff
    eDiff,      \* the diff
    eOut,       \* what edit_diff, calc_ratio, is_relevant_diff and the hierarchy do with it
    \* -- the stores (MongoDB) and the notification channel
    debug,      \* args.debug
    store,      \* Record Store: per <<collection, ticker>> the inserted entries, by date
    diffLog,    \* the diffs collection, in insertion order
    sent,       \* telegram messages delivered: <<chat, index in diffLog>>
    badChat,    \* registered users whose chat id telegram rejects (BadRequest)
    clock,      \* arrow.utcnow(), as a count
    \* -- alert.py: Alert.collect_all
    opc,        \* "run", "done" (collect_all returned), "terminated" (an exception escaped)
    ci, ti,     \* the collector and the ticker of the current iteration
    visited,    \* <<collection, ticker>> whose iteration was entered in this run
    raised,     \* <<collection, ticker, kind>> (collect.py: and the cycle): what was raised
    \* -- collect.py: Collect.run and its worker pool
    rpc,        \* Collect.run: "pull" (before subscriber.pull), "submit" (after it)
    cycle,      \* the number of pulls made
    subQ,       \* tickers whose message the subscription holds and has not handed out
    received,   \* response.received_messages not yet submitted
    tasks,      \* the executor's tasks, by ticker: ticker_collect's progress
    published,  \* messages published to the diffs topic
    acked,      \* acknowledged messages: <<cycle, ticker>>
    \* -- the Alert Dispatcher
    dpc,        \* "IDLE", "DRAINING", "BATCHING", "DISPATCHING", "MARKING", or "DOWN"
    cursor,     \* the Diff Log position the last drain reached
    drained,    \* the cycle's drained diffs: indices in diffLog, in drain order
    digest,     \* the cycle's digest: one message per entity, in drain order
    marked,     \* how many of drained the MARKING step has marked
    timers,     \* scheduled delayed sends: [sub, ids]
    got,        \* per subscription and diff, the digests received that hold the diff
    drainCount, \* per diff, the cycles that drained it
    digestCount,\* per diff, the digests that hold it
    markCount,  \* per diff, the times MARKING set its delivered flag
    crashes     \* dispatcher crashes so far

diffVars == <<dPrev, dCur, dConf, dDone, dOut>>
editVars == <<eDiff, eOut>>
dbVars == <<debug, store, diffLog, sent, badChat, clock>>
alertVars == <<opc, ci, ti, visited, raised>>
queueVars == <<rpc, cycle, subQ, received, tasks, published, acked>>
dispVars == <<dpc, cursor, drained, digest, marked, timers, got,
              drainCount, digestCount, markCount, crashes>>
vars == <<mode, diffVars, editVars, dbVars, alertVars, queueVars, dispVars>>

-----------------------------------------------------------------------------
(* Values *)

None == "None"          \* Python None
NaN == "NaN"            \* the cell pandas.DataFrame gives a row that lacks the column
DictVal == "{dict}"     \* a nested dict used as a value

\* iteration order of dict keys
KeyOrder == <<"ticker", "date", "tierCode", "a", "n", "x", "y">>

Pos(k) == CHOOSE i \in 1..Len(KeyOrder) : KeyOrder[i] = k

RECURSIVE SortKeys(_)
SortKeys(S) ==
    IF S = {} THEN <<>>
    ELSE LET k == CHOOSE x \in S : \A y \in S : Pos(x) <= Pos(y)
         IN <<k>> \o SortKeys(S \ {k})

RECURSIVE Flatten(_)
Flatten(ss) == IF ss = <<>> THEN <<>> ELSE Head(ss) \o Flatten(Tail(ss))

RECURSIVE SelectIdx(_, _, _)
\* the indices i of 1..n, ascending from i, with keep[i]
SelectIdx(keep, i, n) ==
    IF i > n THEN <<>>
    ELSE (IF keep[i] THEN <<i>> ELSE <<>>) \o SelectIdx(keep, i + 1, n)

IsPrefix(p, q) == Len(p) <= Len(q) /\ SubSeq(q, 1, Len(p)) = p

\* the keys of the dict at path node of record r
Children(r, node) ==
    {q[Len(node) + 1] : q \in {x \in DOMAIN r : Len(x) > Len(node) /\ IsPrefix(node, x)}}

IsDict(r, node) == node \notin DOMAIN r

ValueAt(r, node) == IF node \in DOMAIN r THEN r[node] ELSE DictVal

-----------------------------------------------------------------------------
(* dictdiffer.diff(first, second), as src/alert/collector_base.py calls it *)

AddedOrRemoved(kind, r, node, keys) ==
    IF keys = <<>> THEN <<>>
    ELSE << [diff_type |-> kind, key |-> node,
             values |-> [i \in 1..Len(keys) |->
                            <<keys[i], ValueAt(r, node \o <<keys[i]>>)>>]] >>

RECURSIVE differ_at(_, _, _)
differ_at(first, second, node) ==
    IF IsDict(first, node) /\ IsDict(second, node)
    THEN LET f == Children(first, node)
             s == Children(second, node)
             intersection == SortKeys(f \cap s)
         IN  Flatten([i \in 1..Len(intersection) |->
                        differ_at(first, second, node \o <<intersection[i]>>)])
             \o AddedOrRemoved("add", second, node, SortKeys(s \ f))
             \o AddedOrRemoved("remove", first, node, SortKeys(f \ s))
    ELSE IF ValueAt(first, node) # ValueAt(second, node)
         THEN << [diff_type |-> "change", key |-> node,
                  values |-> <<ValueAt(first, node), ValueAt(second, node)>>] >>
         ELSE <<>>

differ(first, second) == differ_at(first, second, <<>>)

-----------------------------------------------------------------------------
(* src/alert/collector_base.py: the diff engine of the sequential alerter  *)

build_diff(old, new, key, diff_type, ticker, date) ==
    [ticker |-> ticker, date |-> date, changed_key |-> key,
     old |-> old, new |-> new, diff_type |-> diff_type]

parse_one(d, ticker, date) ==
    IF d.diff_type = "change"
    THEN build_diff(d.values[1], d.values[2], d.key, d.diff_type, ticker, date)
    ELSE IF d.diff_type = "remove"
    THEN build_diff(d.values[1][2], None, d.key, d.diff_type, ticker, date)
    ELSE build_diff(None, d.values[1][2], d.key, d.diff_type, ticker, date)

parse_diffs(diffs, ticker, date) ==
    [i \in 1..Len(diffs) |-> parse_one(diffs[i], ticker, date)]

\* get_diffs before its last line, the subclass's _filter_diff
alert_get_diffs(latest, current, ticker, date) ==
    IF latest = <<>> THEN <<>>
    ELSE parse_diffs(differ(latest[1], current), ticker, date)

-----------------------------------------------------------------------------
(* src/collect/collector_base.py: the diff engine and filter of the        *)
(* queue-driven collector                                                  *)

PathLess(p, q) ==
    \E i \in 1..Len(p) + 1 :
        /\ i <= Len(q)
        /\ \A j \in 1..(i - 1) : p[j] = q[j]
        /\ (i = Len(p) + 1 \/ Pos(p[i]) < Pos(q[i]))

RECURSIVE SortPaths(_)
SortPaths(S) ==
    IF S = {} THEN <<>>
    ELSE LET p == CHOOSE x \in S : \A y \in S \ {x} : PathLess(x, y)
         IN <<p>> \o SortPaths(S \ {p})

\* Differ().get_diffs(latest, current, nested_keys) with no nested-key group:
\* one raw diff per leaf path
DifferLeaf(latest, current, p) ==
    IF p \notin DOMAIN latest
    THEN <<[changed_key |-> p, old |-> None, new |-> current[p], diff_type |-> "add"]>>
    ELSE IF p \notin DOMAIN current
    THEN <<[changed_key |-> p, old |-> latest[p], new |-> None, diff_type |-> "remove"]>>
    ELSE IF latest[p] # current[p]
    THEN <<[changed_key |-> p, old |-> latest[p], new |-> current[p],
            diff_type |-> "change"]>>
    ELSE <<>>

Differ_get_diffs(latest, current) ==
    LET ps == SortPaths(DOMAIN latest \cup DOMAIN current)
    IN Flatten([i \in 1..Len(ps) |-> DifferLeaf(latest, current, ps[i])])

\* a decoration that also creates the flag, set
decorate_delivered(diff, ticker, date, name) ==
    [ticker |-> ticker, date |-> date, changed_key |-> diff.changed_key,
     source |-> name, old |-> diff.old, new |-> diff.new,
     diff_type |-> diff.diff_type, delivered |-> TRUE]

decorate_diff(diff, ticker, date, name) ==
    [ticker |-> ticker, date |-> date, changed_key |-> diff.changed_key,
     source |-> name, old |-> diff.old, new |-> diff.new,
     diff_type |-> diff.diff_type]

Has(list, x) == \E i \in 1..Len(list) : list[i] = x

\* list.index(x), from 0; the caller checks Has (index raises ValueError)
Index(list, x) == (CHOOSE i \in 1..Len(list) : list[i] = x /\ \A j \in 1..(i - 1) : list[j] # x) - 1

\* hierarchy[key].index(new) or .index(old) raises ValueError
hierarchy_raises(diff, hierarchy) ==
    /\ diff.changed_key \in DOMAIN hierarchy
    /\ ~ (Has(hierarchy[diff.changed_key], diff.new) /\ Has(hierarchy[diff.changed_key], diff.old))

\* the comparison of the two indices turned around
hierarchy_progresses(diff, hierarchy) ==
    /\ diff.changed_key \in DOMAIN hierarchy
    /\ ~ hierarchy_raises(diff, hierarchy)
    /\ Index(hierarchy[diff.changed_key], diff.new) > Index(hierarchy[diff.changed_key], diff.old)

hierarchy_regresses(diff, hierarchy) ==
    /\ diff.changed_key \in DOMAIN hierarchy
    /\ ~ hierarchy_raises(diff, hierarchy)
    /\ Index(hierarchy[diff.changed_key], diff.new) < Index(hierarchy[diff.changed_key], diff.old)

\* an _edit_diff without the test of the empty key
edit_diff_keep_empty(diff, hierarchy) ==
    IF hierarchy_regresses(diff, hierarchy) THEN <<>> ELSE <<diff>>

\* an _edit_diff that deletes the diff when index() raises ValueError
edit_diff_fail_closed(diff, hierarchy) ==
    IF diff.changed_key = <<>> THEN <<>>
    ELSE IF hierarchy_raises(diff, hierarchy) \/ hierarchy_regresses(diff, hierarchy) THEN <<>>
    ELSE <<diff>>

\* CollectorBase._edit_diff: <<>> is None (the diff is deleted), <<diff>> the diff
collector_edit_diff(diff, hierarchy) ==
    IF diff.changed_key = <<>> THEN <<>>
    ELSE IF hierarchy_regresses(diff, hierarchy) THEN <<>>
    ELSE <<diff>>

\* CollectorBase._edit_diff logs 'Incorrect hierarchy'
collector_edit_warns(diff, hierarchy) ==
    diff.changed_key # <<>> /\ hierarchy_raises(diff, hierarchy)

\* an _edit_diffs that does not look at filter_keys
edit_diffs_keep_filtered(diffs, hierarchy, filter_keys) ==
    Flatten([i \in 1..Len(diffs) |-> collector_edit_diff(diffs[i], hierarchy)])

collector_edit_diffs(diffs, hierarchy, filter_keys) ==
    Flatten([i \in 1..Len(diffs) |->
        LET e == collector_edit_diff(diffs[i], hierarchy)
        IN IF e # <<>> /\ e[1].changed_key \notin filter_keys THEN e ELSE <<>>])

collect_get_diffs(latest, current, conf, ticker, date, name) ==
    IF latest = <<>> THEN <<>>
    ELSE LET raw == Differ_get_diffs(latest[1], current)
             decorated == [i \in 1..Len(raw) |-> decorate_diff(raw[i], ticker, date, name)]
         IN collector_edit_diffs(decorated, conf.hierarchy, conf.filter_keys)

\* CollectorBase.get_diffs with its except clause: <<>> is None, <<diffs>> a
\* list; the except clause logs and has no return statement
collect_get_diffs_result(latest, current, conf, ticker, date, name, fail) ==
    IF latest = <<>> THEN << <<>> >>
    ELSE IF fail # <<>> THEN <<>>
    ELSE << collect_get_diffs(latest, current, conf, ticker, date, name) >>

-----------------------------------------------------------------------------
(* src/alert/alerter_base.py *)

alerter_edit_diff(diff, hierarchy, filter_keys) ==
    IF diff.changed_key = <<>> \/ diff.changed_key \in filter_keys THEN <<>>
    ELSE IF hierarchy_regresses(diff, hierarchy) THEN <<>>
    ELSE <<diff>>

-----------------------------------------------------------------------------
(* src/alert/tickers/alerters/securities.py *)

Securities_get_hierarchy ==
    (<<"tierDisplayName">> :>
        <<"Expert Market", "Grey Market", "Pink No Information",
          "Pink Limited Information", "Pink Current Information", "OTCQB",
          "OTCQX International">>)
    @@ (<<"tierCode">> :> <<"GM", "EM", "PN", "PL", "PC", "QB">>)

\* the values of a diff's old and new in the alerter: None, an int, a str;
\* and what edit_diff puts in their place
NoneV == [kind |-> "None", n |-> 0, s |-> "", num |-> 0, den |-> 0]
IntV(n) == [kind |-> "int", n |-> n, s |-> "", num |-> 0, den |-> 0]
StrV(s) == [kind |-> "str", n |-> 0, s |-> s, num |-> 0, den |-> 0]

\* f'{n:,}'
Formatted(n) == [kind |-> "{:,}", n |-> n, s |-> "", num |-> 0, den |-> 0]

\* f'{n:,}' + " ({:.0%})".format(num / den)
Annotated(n, num, den) == [kind |-> "{:,} ({:.0%})", n |-> n, s |-> "", num |-> num, den |-> den]

\* the whole translation dict, which get_tier_translation returns for a falsy key
TranslationDict == [kind |-> "tier_translation", n |-> 0, s |-> "", num |-> 0, den |-> 0]

\* the strings int() parses
Numerals == ("100" :> 100) @@ ("70" :> 70)

\* int(v): raises is "" when int() returns n
int(v) ==
    IF v.kind = "int" THEN [raises |-> "", n |-> v.n]
    ELSE IF v.kind = "str" /\ v.s \in DOMAIN Numerals THEN [raises |-> "", n |-> Numerals[v.s]]
    ELSE IF v.kind = "None" THEN [raises |-> "TypeError", n |-> 0]
    ELSE [raises |-> "ValueError", n |-> 0]

\* bool(v)
truthy(v) ==
    /\ v.kind # "None"
    /\ ~ (v.kind = "int" /\ v.n = 0)
    /\ ~ (v.kind = "str" /\ v.s = "")

extended_keys ==
    {<<"authorizedShares">>, <<"outstandingShares">>, <<"restrictedShares">>,
     <<"unrestrictedShares">>}

tier_translation ==
    ("QB" :> "OTCQB")
    @@ ("PC" :> "Pink Current Information")
    @@ ("PL" :> "Pink Limited Information")
    @@ ("PN" :> "Pink No Information")
    @@ ("EM" :> "Expert Market")
    @@ ("GM" :> "Grey Market")

get_tier_translation(key) ==
    IF ~ truthy(key) THEN TranslationDict
    ELSE IF key.kind = "str" /\ key.s \in DOMAIN tier_translation
    THEN StrV(tier_translation[key.s])
    ELSE NoneV

\* Securities.calc_ratio: the ratio num / den, or the exception that leaves it;
\* int(new) is evaluated before int(old), only ValueError is caught
calc_ratio(diff) ==
    LET new == int(diff.new)
        old == int(diff.old)
    IN IF new.raises = "ValueError" THEN [raises |-> "", num |-> 0, den |-> 1]
       ELSE IF new.raises # "" THEN [raises |-> new.raises, num |-> 0, den |-> 1]
       ELSE IF old.raises = "ValueError" THEN [raises |-> "", num |-> 0, den |-> 1]
       ELSE IF old.raises # "" THEN [raises |-> old.raises, num |-> 0, den |-> 1]
       ELSE IF old.n = 0 THEN [raises |-> "ZeroDivisionError", num |-> 0, den |-> 1]
       ELSE [raises |-> "", num |-> new.n - old.n, den |-> old.n]

\* ratio < -0.2
below_minus_fifth(ratio) ==
    IF ratio.den > 0 THEN 5 * ratio.num < - ratio.den ELSE 5 * ratio.num > - ratio.den

\* TickerAlerter.edit_diff, which Securities.edit_diff calls first
TickerAlerter_edit_diff(diff) == diff

\* an edit_diff that also rewrites the diff_type
edit_diff_retypes(diff) ==
    [raises |-> "", diff |-> <<[diff EXCEPT !.diff_type = "change"]>>]

\* Securities.edit_diff: the diff it returns (diff is <<d>>), or the exception
\* that leaves it (diff is <<>>)
Securities_edit_diff(diff) ==
    LET old == diff.old
        new == diff.new
        edited == TickerAlerter_edit_diff(diff)
        ratio == calc_ratio(edited)
        old0 == IF int(old).raises = "ValueError" THEN IntV(0) ELSE old
    IN IF new.kind = "int"
       THEN IF int(old).raises = "TypeError" THEN [raises |-> "TypeError", diff |-> <<>>]
            ELSE IF ratio.raises # "" THEN [raises |-> ratio.raises, diff |-> <<>>]
            ELSE IF old0.kind # "int" THEN [raises |-> "ValueError", diff |-> <<>>]
            ELSE [raises |-> "",
                  diff |-> <<[edited EXCEPT
                      !.old = Formatted(old0.n),
                      !.new = IF edited.changed_key \in extended_keys /\ ratio.num # 0
                              THEN Annotated(new.n, ratio.num, ratio.den)
                              ELSE Formatted(new.n)]>>]
       ELSE IF edited.changed_key = <<"tierCode">>
       THEN [raises |-> "",
             diff |-> <<[edited EXCEPT !.old = get_tier_translation(old),
                                       !.new = get_tier_translation(new)]>>]
       ELSE [raises |-> "", diff |-> <<[edited EXCEPT !.old = old, !.new = new]>>]

\* Securities.is_relevant_diff: "True", or "super" when it returns what
\* TickerAlerter.is_relevant_diff returns
Securities_is_relevant_diff(diff) ==
    IF diff.changed_key \in extended_keys /\ diff.new.kind = "int"
    THEN IF ~ truthy(diff.old) THEN [raises |-> "", value |-> "True"]
         ELSE LET ratio == calc_ratio(diff)
              IN IF ratio.raises # "" THEN [raises |-> ratio.raises, value |-> ""]
                 ELSE IF below_minus_fifth(ratio) THEN [raises |-> "", value |-> "True"]
                 ELSE [raises |-> "", value |-> "super"]
    ELSE [raises |-> "", value |-> "super"]

\* the diff as the hierarchy filter compares it: old and new as they are stored
plain(v) == IF v.kind = "None" THEN None ELSE v.s

\* the tierCode diff, and the tierDisplayName diff of the same transition
code_diff(diff) ==
    [diff EXCEPT !.old = plain(diff.old), !.new = plain(diff.new)]

name_diff(diff) ==
    [diff EXCEPT !.changed_key = <<"tierDisplayName">>,
                 !.old = tier_translation[diff.old.s],
                 !.new = tier_translation[diff.new.s]]

-----------------------------------------------------------------------------
(* The diff engine and filter on one pair of records *)

LeafPaths == {<<"tierCode">>, <<"a">>, <<"n", "x">>, <<"n", "y">>}
Scalars == {"PN", "QB"}

Records == UNION {[D -> Scalars] : D \in SUBSET LeafPaths}

NoHierarchy == [k \in {} |-> <<>>]

\* capability sets: the base classes' (no hierarchy, no filter keys), Securities'
\* hierarchy, and an entity type that also ignores key 'a'
Confs ==
    { [hierarchy |-> NoHierarchy, filter_keys |-> {}],
      [hierarchy |-> Securities_get_hierarchy, filter_keys |-> {}],
      [hierarchy |-> Securities_get_hierarchy, filter_keys |-> {<<"a">>}] }

NoOut == [alert |-> <<>>, collect |-> <<>>, raw |-> <<>>, cedit |-> <<>>, aedit |-> <<>>,
          logged |-> <<>>, cedit_logged |-> <<>>, aedit_logged |-> <<>>,
          failed_at |-> <<>>, returned |-> <<>>]

IdleDb ==
    /\ debug = FALSE
    /\ store = <<>>
    /\ diffLog = <<>>
    /\ sent = {}
    /\ badChat = {}
    /\ clock = 0

IdleDisp ==
    /\ dpc = "idle"
    /\ cursor = 0
    /\ drained = <<>>
    /\ digest = <<>>
    /\ marked = 0
    /\ timers = {}
    /\ got = <<>>
    /\ drainCount = <<>>
    /\ digestCount = <<>>
    /\ markCount = <<>>
    /\ crashes = 0

IdleQueue ==
    /\ rpc = "idle"
    /\ cycle = 0
    /\ subQ = {}
    /\ received = <<>>
    /\ tasks = <<>>
    /\ published = <<>>
    /\ acked = {}

IdleAlert ==
    /\ opc = "idle"
    /\ ci = 0
    /\ ti = 0
    /\ visited = {}
    /\ raised = {}

IdleEdit ==
    /\ eDiff = <<>>
    /\ eOut = <<>>

IdleDiff ==
    /\ IdleEdit
    /\ dPrev = <<>>
    /\ dCur = <<>>
    /\ dConf = [hierarchy |-> NoHierarchy, filter_keys |-> {}]
    /\ dDone = FALSE
    /\ dOut = NoOut

InitDiff ==
    /\ mode = "diff"
    /\ IdleDb
    /\ IdleAlert
    /\ IdleQueue
    /\ IdleDisp
    /\ IdleEdit
    /\ dPrev \in {<<>>} \cup {<<r>> : r \in Records}
    /\ dCur \in Records
    /\ dConf \in Confs
    /\ dDone = FALSE
    /\ dOut = NoOut

\* the diffs get_diffs decorates before it edits them
decorated_diffs(latest, current, ticker, date, name) ==
    IF latest = <<>> THEN <<>>
    ELSE LET raw == Differ_get_diffs(latest[1], current)
         IN [i \in 1..Len(raw) |-> decorate_diff(raw[i], ticker, date, name)]

\* both collector bases' get_diffs on (_latest, _current_data), and what the
\* collector's and the alerter's _edit_diff return for each decorated diff and
\* for each diff of the sequential alerter's engine (the diffs collection holds
\* the diffs of both engines); fail = <<k>> is a run of the collector's
\* get_diffs in which an exception is raised inside the try block when k
\* diffs have been computed, returned is what that run returns
GetDiffs ==
    /\ mode = "diff"
    /\ ~ dDone
    /\ dDone' = TRUE
    /\ LET raw == decorated_diffs(dPrev, dCur, "ABC", "d1", "securities")
           logged == alert_get_diffs(dPrev, dCur, "ABC", "d1")
       IN \E fail \in {<<>>} \cup (IF dPrev = <<>> THEN {} ELSE {<<k>> : k \in 0..Len(raw)}) :
          dOut' = [alert |-> logged,
                   failed_at |-> fail,
                   returned |-> collect_get_diffs_result(dPrev, dCur, dConf, "ABC", "d1",
                                                         "securities", fail),
                   logged |-> logged,
                   cedit_logged |-> [i \in 1..Len(logged) |->
                                collector_edit_diff(logged[i], dConf.hierarchy)],
                   aedit_logged |-> [i \in 1..Len(logged) |->
                                alerter_edit_diff(logged[i], dConf.hierarchy, dConf.filter_keys)],
                   collect |-> collect_get_diffs(dPrev, dCur, dConf, "ABC", "d1", "securities"),
                   raw |-> raw,
                   cedit |-> [i \in 1..Len(raw) |-> collector_edit_diff(raw[i], dConf.hierarchy)],
                   aedit |-> [i \in 1..Len(raw) |->
                                alerter_edit_diff(raw[i], dConf.hierarchy, dConf.filter_keys)]]
    /\ UNCHANGED <<mode, dPrev, dCur, dConf, editVars, dbVars, alertVars, queueVars, dispVars>>

NextDiff == GetDiffs

SpecDiff == InitDiff /\ [][NextDiff]_vars

-----------------------------------------------------------------------------
(* The Record Store as the collectors read it (rows are flat: every leaf   *)
(* path has length 1)                                                      *)

Dates == <<"d1", "d2", "d3", "d4", "d5", "d6", "d7", "d8", "d9">>

\* entry = deepcopy(_current_data); entry.update({"ticker": ..., "date": ...})
make_entry(data, ticker, date) ==
    [p \in DOMAIN data \cup {<<"ticker">>, <<"date">>} |->
        IF p = <<"ticker">> THEN ticker
        ELSE IF p = <<"date">> THEN date
        ELSE data[p]]

\* the columns of pandas.DataFrame(rows)
Columns(rows) == UNION {{p[1] : p \in DOMAIN rows[i]} : i \in 1..Len(rows)}

Cell(row, k) == IF <<k>> \in DOMAIN row THEN row[<<k>>] ELSE NaN

\* (history[cols].shift() != history[cols]).any(axis='columns') at row i:
\* NaN differs from everything, and shift() gives the first row a NaN predecessor
row_differs(rows, i) ==
    \E k \in Columns(rows) \ {"date", "verifiedDate"} :
        \/ i = 1
        \/ Cell(rows[i], k) = NaN
        \/ Cell(rows[i - 1], k) = NaN
        \/ Cell(rows[i], k) # Cell(rows[i - 1], k)

\* alert CollectorBase.get_sorted_history(duplicates=False): the indices kept
sorted_history_rows(rows) ==
    SelectIdx([i \in 1..Len(rows) |-> row_differs(rows, i)], 1, Len(rows))

\* a latest that is an empty dict, not None, when there is no history
get_latest_or_empty(rows, keep) ==
    << [p \in {<<k>> : k \in Columns(rows) \ {"date", "ticker"}} |->
            Cell(rows[keep[Len(keep)]], p[1])] >>

\* __get_latest / get_latest on a history whose kept rows are keep:
\* .tail(1).drop(['date', 'ticker'], 'columns').to_dict('index')
get_latest(rows, keep) ==
    IF keep = <<>> THEN <<>>
    ELSE << [p \in {<<k>> : k \in Columns(rows) \ {"date", "ticker"}} |->
                Cell(rows[keep[Len(keep)]], p[1])] >>

alert_latest(rows) == get_latest(rows, sorted_history_rows(rows))

\* collect CollectorBase: get_sorted_history(apply_filters=False), get_latest
collect_latest(rows) == get_latest(rows, [i \in 1..Len(rows) |-> i])

-----------------------------------------------------------------------------
(* alert.py: the sequential orchestrator *)

COLLECTORS == <<"symbols", "profile">>
TickersList == <<"T1", "T2">>
Users == <<"u1", "u2">>

\* what fetch_data returns for a valid ticker
FetchRecs == {(<<"tierCode">> :> "PN"), (<<"tierCode">> :> "QB")}

\* the snapshots a ticker's collections hold before the run: the latest is
\* StoredRec, the ones before it had one more key
StoredRec == (<<"tierCode">> :> "PN")
WideRec == (<<"tierCode">> :> "PN") @@ (<<"a">> :> "PN")
PastDates == <<"c1", "c2", "c3", "c4">>

StoredHistory(n, ticker) ==
    [i \in 1..n |-> make_entry(IF i = n THEN StoredRec ELSE WideRec, ticker, PastDates[i])]

Slots == {<<c, t>> : c \in {COLLECTORS[i] : i \in 1..Len(COLLECTORS)},
                     t \in {TickersList[i] : i \in 1..Len(TickersList)}}

MaxStored == 2

InitAlert ==
    /\ mode = "alert"
    /\ IdleDiff
    /\ IdleQueue
    /\ IdleDisp
    /\ debug \in BOOLEAN
    /\ \E n \in 0..MaxStored :
          store = [s \in Slots |-> StoredHistory(n, s[2])]
    /\ diffLog = <<>>
    /\ sent = {}
    /\ badChat \in {{}, {"u2"}}
    /\ clock = 0
    /\ opc = "run"
    /\ ci = 1
    /\ ti = 1
    /\ visited = {}
    /\ raised = {}

\* Alert.__telegram_alert for the diffs logged at first..last, in order: a send
\* to a chat of badChat raises BadRequest (caught, logged); boom = <<j, u>> is
\* the send that raises another telegram error, <<>> when none does
telegram_alerts(first, last, boom) ==
    {<<Users[x[1]], x[2]>> :
        x \in {y \in (1..Len(Users)) \X (first..last) :
                  /\ Users[y[1]] \notin badChat
                  /\ \/ boom = <<>>
                     \/ y[2] < boom[1]
                     \/ (y[2] = boom[1] /\ y[1] < boom[2])}}

\* the loops are left at the first failure
AlertAbort == opc' = "terminated" /\ UNCHANGED <<ci, ti>>

\* the loops of collect_all and collect move to the next <<collector, ticker>>
AlertAdvance ==
    IF ti < Len(TickersList) THEN /\ ti' = ti + 1
                                  /\ UNCHANGED <<ci, opc>>
    ELSE IF ci < Len(COLLECTORS) THEN /\ ci' = ci + 1
                                      /\ ti' = 1
                                      /\ UNCHANGED opc
    ELSE /\ opc' = "done"
         /\ UNCHANGED <<ci, ti>>

AlertSlot == <<COLLECTORS[ci], TickersList[ti]>>

\* a collect that stores nothing
collect_without_store(rows, data, ticker, date) == rows

\* alert CollectorBase.collect after fetch_data returned data
alert_collect_store(rows, data, ticker, date) ==
    IF ~ debug THEN Append(rows, make_entry(data, ticker, date)) ELSE rows

\* alert CollectorBase.get_diffs: the subclass's _filter_diff keeps the diffs
\* whose keep[i] is TRUE
alert_filtered_diffs(latest, data, ticker, date, keep) ==
    LET parsed == alert_get_diffs(latest, data, ticker, date)
    IN [i \in 1..Len(SelectIdx(keep, 1, Len(parsed))) |->
            parsed[SelectIdx(keep, 1, Len(parsed))[i]]]

\* one iteration of Alert.collect whose try body runs to its end, or whose
\* alerting raises a telegram error other than BadRequest at send boom
AlertCollect ==
    /\ mode = "alert"
    /\ opc = "run"
    /\ \E data \in FetchRecs :
        LET latest == alert_latest(store[AlertSlot])
            date == Dates[clock + 1]
            n == Len(alert_get_diffs(latest, data, AlertSlot[2], date))
        IN \E keep \in [1..n -> BOOLEAN] :
            LET diffs == alert_filtered_diffs(latest, data, AlertSlot[2], date, keep)
                first == Len(diffLog) + 1
                last == Len(diffLog) + Len(diffs)
            IN \E boom \in {<<>>} \cup ((first..last) \X (1..Len(Users))) :
                /\ store' = [store EXCEPT ![AlertSlot] =
                                alert_collect_store(@, data, AlertSlot[2], date)]
                /\ diffLog' = diffLog \o diffs
                /\ sent' = sent \cup telegram_alerts(first, last, boom)
                /\ raised' = IF boom = <<>> THEN raised
                             ELSE raised \cup {<<AlertSlot[1], AlertSlot[2], "telegram">>}
    /\ clock' = clock + 1
    /\ visited' = visited \cup {AlertSlot}
    /\ AlertAdvance
    /\ UNCHANGED <<mode, diffVars, editVars, queueVars, dispVars, debug, badChat>>

\* an iteration that inserts an entry before its fetch_data raises
AlertSkipStores ==
    /\ mode = "alert"
    /\ opc = "run"
    /\ \E kind \in {"invalid", "error"} :
          raised' = raised \cup {<<AlertSlot[1], AlertSlot[2], kind>>}
    /\ store' = [store EXCEPT ![AlertSlot] =
                    Append(@, make_entry(StoredRec, AlertSlot[2], Dates[clock + 1]))]
    /\ clock' = clock + 1
    /\ visited' = visited \cup {AlertSlot}
    /\ AlertAdvance
    /\ UNCHANGED <<mode, diffVars, editVars, queueVars, dispVars, debug, diffLog, sent, badChat>>

\* one iteration whose fetch_data raises InvalidTickerExcpetion ("invalid") or
\* another exception that is not a pymongo OperationFailure ("error")
AlertSkip ==
    /\ mode = "alert"
    /\ opc = "run"
    /\ \E kind \in {"invalid", "error"} :
          raised' = raised \cup {<<AlertSlot[1], AlertSlot[2], kind>>}
    /\ clock' = clock + 1
    /\ visited' = visited \cup {AlertSlot}
    /\ AlertAdvance
    /\ UNCHANGED <<mode, diffVars, editVars, queueVars, dispVars, debug, store, diffLog, sent, badChat>>

\* one iteration in which a store operation raises OperationFailure: the find of
\* the collector's constructor ("find"), or collect's insert_one ("insert")
AlertStoreFailure ==
    /\ mode = "alert"
    /\ opc = "run"
    /\ \E kind \in {"find"} \cup (IF debug THEN {} ELSE {"insert"}) :
          raised' = raised \cup {<<AlertSlot[1], AlertSlot[2], kind>>}
    /\ clock' = clock + 1
    /\ visited' = visited \cup {AlertSlot}
    /\ opc' = "terminated"
    /\ UNCHANGED <<mode, diffVars, editVars, queueVars, dispVars, debug, store, diffLog, sent, badChat, ci, ti>>

NextAlert == AlertCollect \/ AlertSkip \/ AlertStoreFailure

SpecAlert == InitAlert /\ [][NextAlert]_vars

-----------------------------------------------------------------------------
(* collect.py: the queue-driven orchestrator and its worker pool *)

MAX_MESSAGES == 2
MaxCycles == 2
MaxRaised == 1

\* Factory.TICKER_COLLECTIONS, and the sons of its composed collectors
TICKER_COLLECTIONS == <<"symbols", "profile", "securities">>
all_sons == {"symbols"}

\* the tickers whose messages the subscription holds
QueueTickers == <<"T1", "T2", "T3">>

QueueSlots == {<<TICKER_COLLECTIONS[i], QueueTickers[j]>> :
                  i \in 1..Len(TICKER_COLLECTIONS), j \in 1..Len(QueueTickers)}

\* the capability set of the collector Factory.collectors_factory builds
CollectorConf(name) ==
    IF name = "securities"
    THEN [hierarchy |-> Securities_get_hierarchy, filter_keys |-> {}]
    ELSE [hierarchy |-> NoHierarchy, filter_keys |-> {}]

QueueFetchRecs == {(<<"tierCode">> :> "PN"), (<<"tierCode">> :> "QB")}

InitQueue ==
    /\ mode = "queue"
    /\ IdleDiff
    /\ IdleAlert
    /\ IdleDisp
    /\ debug = FALSE
    /\ store = [s \in QueueSlots |-> <<>>]
    /\ diffLog = <<>>
    /\ sent = {}
    /\ badChat = {}
    /\ clock = 0
    /\ rpc = "pull"
    /\ cycle = 0
    /\ subQ = {QueueTickers[i] : i \in 1..Len(QueueTickers)}
    /\ received = <<>>
    /\ tasks = <<>>
    /\ published = <<>>
    /\ acked = {}

\* Collect.run: subscriber.pull hands out at most MAX_MESSAGES messages
QPull ==
    /\ mode = "queue"
    /\ rpc = "pull"
    /\ cycle < MaxCycles
    /\ \E S \in SUBSET subQ :
        /\ Cardinality(S) <= MAX_MESSAGES
        /\ received' = SelectSeq(QueueTickers, LAMBDA t : t \in S)
        /\ subQ' = subQ \ S
    /\ rpc' = "submit"
    /\ cycle' = cycle + 1
    /\ UNCHANGED <<mode, diffVars, editVars, dispVars, dbVars, alertVars, tasks, published, acked>>

\* Collect.queue_listen: executor.submit(ticker_collect, msg, ack_id); a worker
\* starts the task and it takes its date
QSubmit ==
    /\ mode = "queue"
    /\ rpc = "submit"
    /\ received # <<>>
    /\ tasks' = tasks @@ (Head(received) :>
                    [date |-> Dates[clock + 1], idx |-> 1, all_diffs |-> <<>>,
                     status |-> "running"])
    /\ received' = Tail(received)
    /\ clock' = clock + 1
    /\ UNCHANGED <<mode, diffVars, editVars, dispVars, debug, store, diffLog, sent, badChat, alertVars,
                   rpc, cycle, subQ, published, acked>>

\* the concrete collector's collect(): the snapshot is stored and the diffs
\* against the latest stored snapshot are returned
\* a collect that inserts its entry twice
collect_store_twice(rows, data, ticker, date) ==
    Append(Append(rows, make_entry(data, ticker, date)), make_entry(data, ticker, date))

queue_collect_store(rows, data, ticker, date) ==
    Append(rows, make_entry(data, ticker, date))

\* a loop that skips no collection
skipped_never(collection_name) == FALSE

\* ticker_collect: if collection_name in all_sons: continue
skipped(collection_name) == collection_name \in all_sons

\* ticker_collect: one iteration of the loop over TICKER_COLLECTIONS
QTaskStep(t) ==
    /\ mode = "queue"
    /\ t \in DOMAIN tasks
    /\ tasks[t].status = "running"
    /\ tasks[t].idx <= Len(TICKER_COLLECTIONS)
    /\ LET name == TICKER_COLLECTIONS[tasks[t].idx]
           slot == <<name, t>>
       IN \/ /\ skipped(name)
             /\ tasks' = [tasks EXCEPT ![t].idx = @ + 1]
             /\ UNCHANGED <<store, visited, raised>>
          \/ /\ ~ skipped(name)
             /\ \E data \in QueueFetchRecs :
                 /\ store' = [store EXCEPT ![slot] =
                                  queue_collect_store(@, data, t, tasks[t].date)]
                 /\ tasks' = [tasks EXCEPT
                       ![t].idx = @ + 1,
                       ![t].all_diffs = @ \o collect_get_diffs(collect_latest(store[slot]),
                                   data, CollectorConf(name), t, tasks[t].date, name)]
             /\ visited' = visited \cup {slot}
             /\ UNCHANGED raised
          \/ /\ ~ skipped(name)
             /\ Cardinality(raised) < MaxRaised
             /\ raised' = raised \cup {<<name, t, "error", cycle>>}
             /\ tasks' = [tasks EXCEPT ![t].idx = @ + 1]
             /\ visited' = visited \cup {slot}
             /\ UNCHANGED store
          \/ /\ ~ skipped(name)
             /\ Cardinality(raised) < MaxRaised
             /\ raised' = raised \cup {<<name, t, "find", cycle>>}
             /\ tasks' = [tasks EXCEPT ![t].status = "failed"]
             /\ visited' = visited \cup {slot}
             /\ UNCHANGED store
    /\ UNCHANGED <<mode, diffVars, editVars, dispVars, debug, diffLog, sent, badChat, clock, opc, ci, ti,
                   rpc, cycle, subQ, received, published, acked>>

\* a ticker_collect that acknowledges before its loop is over
QTaskAckFirst(t) ==
    /\ mode = "queue"
    /\ t \in DOMAIN tasks
    /\ tasks[t].status = "running"
    /\ published' = IF tasks[t].all_diffs # <<>>
                    THEN Append(published, [ticker |-> t, diffs |-> tasks[t].all_diffs])
                    ELSE published
    /\ acked' = acked \cup {<<cycle, t>>}
    /\ tasks' = [tasks EXCEPT ![t].status = "done"]
    /\ UNCHANGED <<mode, diffVars, editVars, dispVars, dbVars, alertVars, rpc, cycle, subQ, received>>

\* ticker_collect after its loop: publish all_diffs and acknowledge the message
QTaskFinish(t) ==
    /\ mode = "queue"
    /\ t \in DOMAIN tasks
    /\ tasks[t].status = "running"
    /\ tasks[t].idx > Len(TICKER_COLLECTIONS)
    /\ published' = IF tasks[t].all_diffs # <<>>
                    THEN Append(published, [ticker |-> t, diffs |-> tasks[t].all_diffs])
                    ELSE published
    /\ acked' = acked \cup {<<cycle, t>>}
    /\ tasks' = [tasks EXCEPT ![t].status = "done"]
    /\ UNCHANGED <<mode, diffVars, editVars, dispVars, dbVars, alertVars, rpc, cycle, subQ, received>>

\* executor.shutdown(wait=False): run() goes on while tasks are running
QShutdownNoWait ==
    /\ mode = "queue"
    /\ rpc = "submit"
    /\ received = <<>>
    /\ rpc' = "pull"
    /\ UNCHANGED <<mode, diffVars, editVars, dispVars, dbVars, alertVars, cycle, subQ, received, tasks,
                   published, acked>>

\* Collect.run: executor.shutdown(wait=True), a new executor, and run() again;
\* the subscription hands out again the messages that were not acknowledged
QShutdown ==
    /\ mode = "queue"
    /\ rpc = "submit"
    /\ received = <<>>
    /\ \A t \in DOMAIN tasks : tasks[t].status \in {"done", "failed"}
    /\ subQ' = subQ \cup {t \in DOMAIN tasks : tasks[t].status = "failed"}
    /\ tasks' = <<>>
    /\ rpc' = "pull"
    /\ UNCHANGED <<mode, diffVars, editVars, dispVars, dbVars, alertVars, cycle, received, published, acked>>

NextQueue ==
    \/ QPull
    \/ QSubmit
    \/ \E t \in {QueueTickers[i] : i \in 1..Len(QueueTickers)} : QTaskStep(t) \/ QTaskFinish(t)
    \/ QShutdown

SpecQueue == InitQueue /\ [][NextQueue]_vars

\* both orchestrators
InitOrch == InitAlert \/ InitQueue
NextOrch == NextAlert \/ NextQueue
SpecOrch == InitOrch /\ [][NextOrch]_vars

-----------------------------------------------------------------------------
(* The Alert Dispatcher over the Diff Log.  One polling cycle is           *)
(* IDLE -> DRAINING -> BATCHING -> DISPATCHING -> MARKING -> IDLE.         *)

MaxLog == 2
MaxCrashes == 1

\* sources surfaced only by the daily summary, never by the live drain
DigestOnlySources == {"filings"}
LogSources == {"securities", "filings"}

\* the delay of the delayed lane, in units of DispTick
FixedDelay == 1

ImmediateSubs == {"u1"}
DelayedSubs == {"u3"}

LogIds == 1..MaxLog

Delivered(d) == "delivered" \in DOMAIN d /\ d["delivered"]

DigestOnly(d) == "source" \in DOMAIN d /\ d["source"] \in DigestOnlySources

\* a drain that looks at neither the cursor nor the delivered flag
drain_everything(log, cur) == [i \in 1..Len(log) |-> i]

\* DRAINING: the entries appended since the cursor that are not yet delivered
drain(log, cur) ==
    SelectIdx([i \in 1..Len(log) |->
                  i > cur /\ ~ Delivered(log[i]) /\ ~ DigestOnly(log[i])],
              1, Len(log))

RECURSIVE Entities(_, _)
\* the entities of the diffs ids, in order of first appearance
Entities(log, ids) ==
    IF ids = <<>> THEN <<>>
    ELSE LET rest == Entities(log, SubSeq(ids, 1, Len(ids) - 1))
             t == log[ids[Len(ids)]]["ticker"]
         IN IF \E k \in 1..Len(rest) : rest[k] = t THEN rest ELSE Append(rest, t)

\* BATCHING: one message per entity, merged in drain order
batch(log, ids) ==
    LET es == Entities(log, ids)
    IN [k \in 1..Len(es) |->
          [ticker |-> es[k],
           ids |-> SelectSeq(ids, LAMBDA i : log[i]["ticker"] = es[k])]]

DigestIds(dg) == UNION {{dg[k].ids[j] : j \in 1..Len(dg[k].ids)} : k \in 1..Len(dg)}

\* an update that flips the delivered flag
mark_flips(d) ==
    [f \in DOMAIN d \cup {"delivered"} |-> IF f = "delivered" THEN ~ Delivered(d) ELSE d[f]]

\* MARKING: the targeted update that sets one diff's delivered flag
mark(d) ==
    [f \in DOMAIN d \cup {"delivered"} |-> IF f = "delivered" THEN TRUE ELSE d[f]]

Bump(count, ids) == [i \in DOMAIN count |-> IF i \in ids THEN count[i] + 1 ELSE count[i]]

SeqRange(q) == {q[i] : i \in 1..Len(q)}

InitDispatch ==
    /\ mode = "dispatch"
    /\ IdleDiff
    /\ IdleAlert
    /\ IdleQueue
    /\ debug = FALSE
    /\ store = <<>>
    /\ diffLog = <<>>
    /\ sent = {}
    /\ badChat = {}
    /\ clock = 0
    /\ dpc = "IDLE"
    /\ cursor = 0
    /\ drained = <<>>
    /\ digest = <<>>
    /\ marked = 0
    /\ timers = {}
    /\ got = [u \in ImmediateSubs \cup DelayedSubs |-> [i \in LogIds |-> 0]]
    /\ drainCount = [i \in LogIds |-> 0]
    /\ digestCount = [i \in LogIds |-> 0]
    /\ markCount = [i \in LogIds |-> 0]
    /\ crashes = 0

\* the collection pipeline inserts the diffs that a collector's get_diffs
\* returned for a fetch against the stored snapshot
LogAppend ==
    /\ mode = "dispatch"
    /\ Len(diffLog) < MaxLog
    /\ \E t \in SeqRange(TickersList), data \in QueueFetchRecs, source \in LogSources :
        LET diffs == collect_get_diffs(<<StoredRec>>, data, CollectorConf(source), t,
                                       Dates[clock + 1], source)
        IN /\ diffs # <<>>
           /\ Len(diffLog) + Len(diffs) <= MaxLog
           /\ diffLog' = diffLog \o diffs
    /\ clock' = clock + 1
    /\ UNCHANGED <<mode, diffVars, editVars, alertVars, queueVars, dispVars, debug, store, sent, badChat>>

DispDrain ==
    /\ mode = "dispatch"
    /\ dpc = "IDLE"
    /\ dpc' = "DRAINING"
    /\ drained' = drain(diffLog, cursor)
    /\ cursor' = Len(diffLog)
    /\ drainCount' = Bump(drainCount, SeqRange(drain(diffLog, cursor)))
    /\ UNCHANGED <<mode, diffVars, editVars, alertVars, queueVars, dbVars, digest, marked, timers, got,
                   digestCount, markCount, crashes>>

DispBatch ==
    /\ mode = "dispatch"
    /\ dpc = "DRAINING"
    /\ dpc' = "BATCHING"
    /\ digest' = batch(diffLog, drained)
    /\ digestCount' = Bump(digestCount, DigestIds(batch(diffLog, drained)))
    /\ UNCHANGED <<mode, diffVars, editVars, alertVars, queueVars, dbVars, cursor, drained, marked,
                   timers, got, drainCount, markCount, crashes>>

\* DISPATCHING: the digest is sent to every immediate subscription (the sends
\* to failed return an error, which is logged) and scheduled for every delayed one
DispDispatch ==
    /\ mode = "dispatch"
    /\ dpc = "BATCHING"
    /\ dpc' = "DISPATCHING"
    /\ \E failed \in SUBSET ImmediateSubs :
          got' = [u \in DOMAIN got |->
                    IF u \in ImmediateSubs \ failed THEN Bump(got[u], DigestIds(digest))
                    ELSE got[u]]
    /\ timers' = IF digest = <<>> THEN timers
                 ELSE timers \cup {[sub |-> u, ids |-> DigestIds(digest), age |-> 0] :
                                        u \in DelayedSubs}
    /\ UNCHANGED <<mode, diffVars, editVars, alertVars, queueVars, dbVars, cursor, drained, digest,
                   marked, drainCount, digestCount, markCount, crashes>>

DispMarking ==
    /\ mode = "dispatch"
    /\ dpc = "DISPATCHING"
    /\ dpc' = "MARKING"
    /\ UNCHANGED <<mode, diffVars, editVars, alertVars, queueVars, dbVars, cursor, drained, digest,
                   marked, timers, got, drainCount, digestCount, markCount, crashes>>

\* a marking that does not wait for DISPATCHING
DispMarkEarly ==
    /\ mode = "dispatch"
    /\ dpc \in {"BATCHING", "MARKING"}
    /\ marked < Len(drained)
    /\ diffLog' = [diffLog EXCEPT ![drained[marked + 1]] = mark(@)]
    /\ markCount' = Bump(markCount, {drained[marked + 1]})
    /\ marked' = marked + 1
    /\ UNCHANGED <<mode, diffVars, editVars, alertVars, queueVars, debug, store, sent, badChat, clock,
                   dpc, cursor, drained, digest, timers, got, drainCount, digestCount, crashes>>

\* MARKING marks the drained diffs one by one, each by its own identity
DispMarkOne ==
    /\ mode = "dispatch"
    /\ dpc = "MARKING"
    /\ marked < Len(drained)
    /\ diffLog' = [diffLog EXCEPT ![drained[marked + 1]] = mark(@)]
    /\ markCount' = Bump(markCount, {drained[marked + 1]})
    /\ marked' = marked + 1
    /\ UNCHANGED <<mode, diffVars, editVars, alertVars, queueVars, debug, store, sent, badChat, clock,
                   dpc, cursor, drained, digest, timers, got, drainCount, digestCount, crashes>>

DispIdle ==
    /\ mode = "dispatch"
    /\ dpc = "MARKING"
    /\ marked = Len(drained)
    /\ dpc' = "IDLE"
    /\ drained' = <<>>
    /\ digest' = <<>>
    /\ marked' = 0
    /\ UNCHANGED <<mode, diffVars, editVars, alertVars, queueVars, dbVars, cursor, timers, got,
                   drainCount, digestCount, markCount, crashes>>

\* time passes: every pending one-shot task is one unit older (the age is
\* not counted beyond the delay)
DispTick ==
    /\ mode \in {"dispatch", "pair"}
    /\ \E task \in timers : task.age < FixedDelay
    /\ timers' = {[task EXCEPT !.age = IF @ < FixedDelay THEN @ + 1 ELSE @] : task \in timers}
    /\ UNCHANGED <<mode, diffVars, editVars, alertVars, queueVars, dbVars, dpc, cursor, drained, digest,
                   marked, got, drainCount, digestCount, markCount, crashes>>

\* a one-shot task that fires as soon as it is scheduled
DispTimerAtOnce ==
    /\ mode \in {"dispatch", "pair"}
    /\ \E task \in timers :
        /\ timers' = timers \ {task}
        /\ got' = [got EXCEPT ![task.sub] = Bump(@, task.ids)]
    /\ UNCHANGED <<mode, diffVars, editVars, alertVars, queueVars, dbVars, dpc, cursor, drained, digest,
                   marked, drainCount, digestCount, markCount, crashes>>

\* the one-shot task of a delayed subscription sends its digest when the
\* delay has passed
DispTimer ==
    /\ mode \in {"dispatch", "pair"}
    /\ \E task \in timers :
        /\ task.age >= FixedDelay
        /\ timers' = timers \ {task}
        /\ got' = [got EXCEPT ![task.sub] = Bump(@, task.ids)]
    /\ UNCHANGED <<mode, diffVars, editVars, alertVars, queueVars, dbVars, dpc, cursor, drained, digest,
                   marked, drainCount, digestCount, markCount, crashes>>

\* the dispatcher process dies: what it held in memory is lost
DispCrash ==
    /\ mode = "dispatch"
    /\ dpc # "DOWN"
    /\ crashes < MaxCrashes
    /\ dpc' = "DOWN"
    /\ crashes' = crashes + 1
    /\ cursor' = 0
    /\ drained' = <<>>
    /\ digest' = <<>>
    /\ marked' = 0
    /\ timers' = {}
    /\ UNCHANGED <<mode, diffVars, editVars, alertVars, queueVars, dbVars, got,
                   drainCount, digestCount, markCount>>

\* a cold start: the drain position is the dispatcher's start
DispRestart ==
    /\ mode = "dispatch"
    /\ dpc = "DOWN"
    /\ dpc' = "IDLE"
    /\ cursor' = Len(diffLog)
    /\ UNCHANGED <<mode, diffVars, editVars, alertVars, queueVars, dbVars, drained, digest, marked,
                   timers, got, drainCount, digestCount, markCount, crashes>>

DispCycle == DispDrain \/ DispBatch \/ DispDispatch \/ DispMarking \/ DispMarkOne \/ DispIdle

NextDispatch == LogAppend \/ DispCycle \/ DispTick \/ DispTimer \/ DispCrash \/ DispRestart

SpecDispatch == InitDispatch /\ [][NextDispatch]_vars

\* the dispatcher's loop keeps polling, its timers fire, and a supervisor
\* restarts the dispatcher after a crash
FairDispatch ==
    /\ SpecDispatch
    /\ WF_vars(DispCycle)
    /\ WF_vars(DispTick)
    /\ WF_vars(DispTimer)
    /\ WF_vars(DispRestart)

-----------------------------------------------------------------------------
(* Two dispatcher instances over one Diff Log.  Each instance has its own  *)
(* state, cursor, drained diffs and digest; the Diff Log, the              *)
(* subscriptions and the clock are shared.                                 *)

Instances == {"A", "B"}

\* the diffs the pipeline inserts while the two instances run
MaxPairLog == 1

InitPair ==
    /\ mode = "pair"
    /\ IdleDiff
    /\ IdleAlert
    /\ IdleQueue
    /\ debug = FALSE
    /\ store = <<>>
    /\ diffLog = <<>>
    /\ sent = {}
    /\ badChat = {}
    /\ clock = 0
    /\ dpc = [p \in Instances |-> "IDLE"]
    /\ cursor = [p \in Instances |-> 0]
    /\ drained = [p \in Instances |-> <<>>]
    /\ digest = [p \in Instances |-> <<>>]
    /\ marked = [p \in Instances |-> 0]
    /\ timers = {}
    /\ got = [u \in ImmediateSubs \cup DelayedSubs |-> [i \in LogIds |-> 0]]
    /\ drainCount = [i \in LogIds |-> 0]
    /\ digestCount = [i \in LogIds |-> 0]
    /\ markCount = [i \in LogIds |-> 0]
    /\ crashes = 0

\* the collection pipeline inserts diffs, as in LogAppend
PairAppend ==
    /\ mode = "pair"
    /\ Len(diffLog) < MaxPairLog
    /\ \E t \in SeqRange(TickersList), data \in QueueFetchRecs, source \in LogSources :
        LET diffs == collect_get_diffs(<<StoredRec>>, data, CollectorConf(source), t,
                                       Dates[clock + 1], source)
        IN /\ diffs # <<>>
           /\ Len(diffLog) + Len(diffs) <= MaxPairLog
           /\ diffLog' = diffLog \o diffs
    /\ clock' = clock + 1
    /\ UNCHANGED <<mode, diffVars, editVars, alertVars, queueVars, dispVars, debug, store, sent, badChat>>

PairDrain(p) ==
    /\ mode = "pair"
    /\ dpc[p] = "IDLE"
    /\ dpc' = [dpc EXCEPT ![p] = "DRAINING"]
    /\ drained' = [drained EXCEPT ![p] = drain(diffLog, cursor[p])]
    /\ cursor' = [cursor EXCEPT ![p] = Len(diffLog)]
    /\ drainCount' = Bump(drainCount, SeqRange(drain(diffLog, cursor[p])))
    /\ UNCHANGED <<mode, diffVars, editVars, alertVars, queueVars, dbVars, digest, marked, timers, got,
                   digestCount, markCount, crashes>>

PairBatch(p) ==
    /\ mode = "pair"
    /\ dpc[p] = "DRAINING"
    /\ dpc' = [dpc EXCEPT ![p] = "BATCHING"]
    /\ digest' = [digest EXCEPT ![p] = batch(diffLog, drained[p])]
    /\ digestCount' = Bump(digestCount, DigestIds(batch(diffLog, drained[p])))
    /\ UNCHANGED <<mode, diffVars, editVars, alertVars, queueVars, dbVars, cursor, drained, marked,
                   timers, got, drainCount, markCount, crashes>>

PairDispatch(p) ==
    /\ mode = "pair"
    /\ dpc[p] = "BATCHING"
    /\ dpc' = [dpc EXCEPT ![p] = "DISPATCHING"]
    /\ \E failed \in SUBSET ImmediateSubs :
          got' = [u \in DOMAIN got |->
                    IF u \in ImmediateSubs \ failed THEN Bump(got[u], DigestIds(digest[p]))
                    ELSE got[u]]
    /\ timers' = IF digest[p] = <<>> THEN timers
                 ELSE timers \cup {[sub |-> u, ids |-> DigestIds(digest[p]), age |-> 0, by |-> p] :
                                        u \in DelayedSubs}
    /\ UNCHANGED <<mode, diffVars, editVars, alertVars, queueVars, dbVars, cursor, drained, digest,
                   marked, drainCount, digestCount, markCount, crashes>>

PairMarking(p) ==
    /\ mode = "pair"
    /\ dpc[p] = "DISPATCHING"
    /\ dpc' = [dpc EXCEPT ![p] = "MARKING"]
    /\ UNCHANGED <<mode, diffVars, editVars, alertVars, queueVars, dbVars, cursor, drained, digest,
                   marked, timers, got, drainCount, digestCount, markCount, crashes>>

PairMarkOne(p) ==
    /\ mode = "pair"
    /\ dpc[p] = "MARKING"
    /\ marked[p] < Len(drained[p])
    /\ diffLog' = [diffLog EXCEPT ![drained[p][marked[p] + 1]] = mark(@)]
    /\ markCount' = Bump(markCount, {drained[p][marked[p] + 1]})
    /\ marked' = [marked EXCEPT ![p] = @ + 1]
    /\ UNCHANGED <<mode, diffVars, editVars, alertVars, queueVars, debug, store, sent, badChat, clock,
                   dpc, cursor, drained, digest, timers, got, drainCount, digestCount, crashes>>

PairIdle(p) ==
    /\ mode = "pair"
    /\ dpc[p] = "MARKING"
    /\ marked[p] = Len(drained[p])
    /\ dpc' = [dpc EXCEPT ![p] = "IDLE"]
    /\ drained' = [drained EXCEPT ![p] = <<>>]
    /\ digest' = [digest EXCEPT ![p] = <<>>]
    /\ marked' = [marked EXCEPT ![p] = 0]
    /\ UNCHANGED <<mode, diffVars, editVars, alertVars, queueVars, dbVars, cursor, timers, got,
                   drainCount, digestCount, markCount, crashes>>

PairCycle(p) ==
    PairDrain(p) \/ PairBatch(p) \/ PairDispatch(p) \/ PairMarking(p) \/ PairMarkOne(p) \/ PairIdle(p)

NextPair == PairAppend \/ (\E p \in Instances : PairCycle(p)) \/ DispTick \/ DispTimer

SpecPair == InitPair /\ [][NextPair]_vars

\* the writers of the Diff Log: the sequential alerter and the dispatcher
\* with the pipeline that feeds it
InitLog == InitAlert \/ InitDispatch

NextLog == NextAlert \/ NextDispatch

SpecLog == InitLog /\ [][NextLog]_vars

\* the diff engines on their own and inside the sequential alerter
InitPipe == InitDiff \/ InitAlert

NextPipe == NextDiff \/ NextAlert

SpecPipe == InitPipe /\ [][NextPipe]_vars

-----------------------------------------------------------------------------
(* The alerter of the securities collection on one diff *)

EditKeys == {<<"tierCode">>, <<"authorizedShares">>, <<"transferAgents">>}

EditValues ==
    {IntV(0), IntV(70), IntV(100), StrV("100"), StrV("abc"), StrV("")}
    \cup {StrV(c) : c \in DOMAIN tier_translation}

\* a change has an old and a new value, an add no old one, a remove no new one
EditDiffs ==
    {[ticker |-> "ABC", date |-> "d1", changed_key |-> k, source |-> "securities",
      old |-> x[2], new |-> x[3], diff_type |-> x[1]] :
        k \in EditKeys,
        x \in ({"change"} \X EditValues \X EditValues)
              \cup ({"add"} \X {NoneV} \X EditValues)
              \cup ({"remove"} \X EditValues \X {NoneV})}

InitEdit ==
    /\ mode = "edit"
    /\ IdleDb
    /\ IdleAlert
    /\ IdleQueue
    /\ IdleDisp
    /\ dPrev = <<>>
    /\ dCur = <<>>
    /\ dConf = [hierarchy |-> NoHierarchy, filter_keys |-> {}]
    /\ dDone = FALSE
    /\ dOut = NoOut
    /\ eDiff \in {<<d>> : d \in EditDiffs}
    /\ eOut = <<>>

\* a transition between two tier codes of the translation table
TierTransition(d) ==
    /\ d.changed_key = <<"tierCode">>
    /\ d.old.kind = "str" /\ d.old.s \in DOMAIN tier_translation
    /\ d.new.kind = "str" /\ d.new.s \in DOMAIN tier_translation

\* the alerter's calls on the diff, and for a tier transition what
\* _edit_diff returns under Securities' hierarchy for the tierCode diff and for
\* the tierDisplayName diff
EditDiff ==
    /\ mode = "edit"
    /\ eOut = <<>>
    /\ LET d == eDiff[1]
       IN eOut' = <<[edit_diff |-> Securities_edit_diff(d),
                     calc_ratio |-> calc_ratio(d),
                     is_relevant_diff |-> Securities_is_relevant_diff(d),
                     by_code |-> IF TierTransition(d)
                                 THEN <<collector_edit_diff(code_diff(d), Securities_get_hierarchy)>>
                                 ELSE <<>>,
                     by_name |-> IF TierTransition(d)
                                 THEN <<collector_edit_diff(name_diff(d), Securities_get_hierarchy)>>
                                 ELSE <<>>]>>
    /\ UNCHANGED <<mode, diffVars, eDiff, dbVars, alertVars, queueVars, dispVars>>

NextEdit == EditDiff

SpecEdit == InitEdit /\ [][NextEdit]_vars

-----------------------------------------------------------------------------
(* Properties *)

LiveIds == {i \in 1..Len(diffLog) : ~ DigestOnly(diffLog[i])}

DeliveredAt(i) == i \in 1..Len(diffLog) /\ Delivered(diffLog[i])

OnceCounted(i) == drainCount[i] = 1 /\ digestCount[i] = 1 /\ markCount[i] = 1

NeverCrashed == mode = "dispatch" /\ crashes = 0

\* without a crash no diff is drained, batched, marked or sent twice, a
\* delivered diff went through each step once, a digest-only diff through
\* none, and a delivered diff is held by no cycle but the one marking it
ExactlyOnceSafe ==
    NeverCrashed =>
        /\ \A i \in LogIds :
              /\ drainCount[i] <= 1 /\ digestCount[i] <= 1 /\ markCount[i] <= 1
              /\ \A u \in DOMAIN got : got[u][i] <= 1
        /\ \A i \in 1..Len(diffLog) :
              /\ Delivered(diffLog[i]) => OnceCounted(i) /\ got["u3"][i] + Cardinality(
                    {task \in timers : i \in task.ids}) = 1
              /\ DigestOnly(diffLog[i]) => drainCount[i] = 0 /\ ~ Delivered(diffLog[i])
        /\ \A k \in 1..Len(drained) :
              Delivered(diffLog[drained[k]]) => dpc = "MARKING" /\ k <= marked

\* C1: with a single dispatcher and no crash every diff of the Diff Log that
\* is not digest-only is drained in exactly one cycle, is in exactly one
\* digest and is marked delivered exactly once, and a delivered diff is
\* never drained or dispatched again.
C1_ExactlyOnce ==
    /\ [] ExactlyOnceSafe
    /\ \A i \in LogIds :
          (mode = "dispatch" /\ i \in LiveIds)
              ~> (crashes > 0 \/ (DeliveredAt(i) /\ OnceCounted(i)))

C1_Witness ==
    /\ NeverCrashed
    /\ dpc = "IDLE"
    /\ cursor = 2
    /\ Len(diffLog) = 2
    /\ Delivered(diffLog[1]) /\ OnceCounted(1)
    /\ DigestOnly(diffLog[2]) /\ drainCount[2] = 0

\* C2: a Diff Log entry is not delivered when it is created, a delivered
\* entry stays delivered, the flag changes only in the dispatcher's MARKING
\* step, and no entry of the log is ever taken away or rewritten otherwise.
C2_DeliveredFlag ==
    [][ /\ Len(diffLog') >= Len(diffLog)
        /\ \A i \in 1..Len(diffLog) :
              /\ Delivered(diffLog[i]) => Delivered(diffLog'[i])
              /\ Delivered(diffLog'[i]) # Delivered(diffLog[i])
                    => mode = "dispatch" /\ dpc = "MARKING" /\ dpc' = "MARKING"
        /\ \A i \in (Len(diffLog) + 1)..Len(diffLog') : ~ Delivered(diffLog'[i])
      ]_vars

C2_Witness ==
    /\ Len(diffLog) = 2
    /\ Delivered(diffLog[1])
    /\ ~ Delivered(diffLog[2])
    /\ ~ DigestOnly(diffLog[2])
    /\ dpc = "IDLE"

\* C3: after a crash between draining and marking, every diff of the Diff
\* Log that is still undelivered, the ones appended before the restart
\* included, is drained and delivered again: no diff that is not
\* digest-only stays undelivered forever.
C3_NoLostDigest ==
    \A i \in LogIds :
        (mode = "dispatch" /\ i \in LiveIds) ~> DeliveredAt(i)

\* the dispatcher crashed holding a drained diff, restarted, and idles with
\* that diff behind its cursor and undelivered
C3_Lost ==
    /\ mode = "dispatch"
    /\ crashes > 0
    /\ dpc = "IDLE"
    /\ \E i \in LiveIds : i <= cursor /\ drainCount[i] = 1 /\ ~ Delivered(diffLog[i])

Rank(list, x) == Cardinality({j \in 1..Len(list) : \A m \in 1..j : list[m] # x})

Ranked(diff, hierarchy) ==
    /\ diff.changed_key \in DOMAIN hierarchy
    /\ Has(hierarchy[diff.changed_key], diff.old)
    /\ Has(hierarchy[diff.changed_key], diff.new)

Lowers(diff, hierarchy) ==
    Rank(hierarchy[diff.changed_key], diff.new) < Rank(hierarchy[diff.changed_key], diff.old)

CBA == (<<"k">> :> <<"C", "B", "A">>)

Step(old, new) ==
    [ticker |-> "ABC", date |-> "d1", changed_key |-> <<"k">>, source |-> "securities",
     old |-> old, new |-> new, diff_type |-> "change"]

\* C4: a diff whose key has a rank list holding both old and new is dropped
\* by the collector's and by the alerter's _edit_diff exactly when new's
\* index is strictly lower than old's, and returned as it is otherwise; with
\* [C,B,A] the step A to B is dropped and B to A passes; a stored tierCode
\* PN followed by a fetched QB yields one change diff, which passes.
C4_HierarchySuppression ==
    /\ collector_edit_diff(Step("A", "B"), CBA) = <<>>
    /\ alerter_edit_diff(Step("A", "B"), CBA, {}) = <<>>
    /\ collector_edit_diff(Step("B", "A"), CBA) = <<Step("B", "A")>>
    /\ alerter_edit_diff(Step("B", "A"), CBA, {}) = <<Step("B", "A")>>
    /\ collector_edit_diff(Step("B", "B"), CBA) = <<Step("B", "B")>>
    /\ alerter_edit_diff(Step("B", "B"), CBA, {}) = <<Step("B", "B")>>
    /\ dDone =>
        /\ \A i \in 1..Len(dOut.raw) :
              Ranked(dOut.raw[i], dConf.hierarchy) =>
                  /\ dOut.cedit[i] = IF Lowers(dOut.raw[i], dConf.hierarchy)
                                     THEN <<>> ELSE <<dOut.raw[i]>>
                  /\ dOut.raw[i].changed_key \notin dConf.filter_keys =>
                        dOut.aedit[i] = IF Lowers(dOut.raw[i], dConf.hierarchy)
                                        THEN <<>> ELSE <<dOut.raw[i]>>
        /\ (/\ dPrev # <<>>
            /\ <<"tierCode">> \in DOMAIN dPrev[1] \cap DOMAIN dCur
            /\ dPrev[1][<<"tierCode">>] = "PN"
            /\ dCur[<<"tierCode">>] = "QB")
              => Cardinality({i \in 1..Len(dOut.collect) :
                                /\ dOut.collect[i].changed_key = <<"tierCode">>
                                /\ dOut.collect[i].diff_type = "change"
                                /\ dOut.collect[i].old = "PN"
                                /\ dOut.collect[i].new = "QB"}) = 1

\* a tierCode step from QB back to PN was found and dropped
C4_Witness ==
    /\ dDone
    /\ dConf.hierarchy = Securities_get_hierarchy
    /\ \E i \in 1..Len(dOut.raw) :
          /\ dOut.raw[i].changed_key = <<"tierCode">>
          /\ dOut.raw[i].old = "QB"
          /\ dOut.raw[i].new = "PN"
          /\ dOut.cedit[i] = <<>>
          /\ dOut.aedit[i] = <<>>
    /\ \A i \in 1..Len(dOut.collect) : dOut.collect[i].changed_key # <<"tierCode">>
    /\ dOut.collect # <<>>

EntryData(e) == [p \in DOMAIN e \ {<<"date">>} |-> e[p]]

LastRow(rows) == rows[Len(rows)]

\* C5: computing the diffs of a record against itself yields no diff, and a
\* fetch that returns the record the store already holds as its latest
\* snapshot appends nothing to the Diff Log and sends no alert.
C5_UnchangedRecord ==
    /\ [](dDone /\ dPrev = <<dCur>> => dOut.alert = <<>> /\ dOut.collect = <<>>)
    /\ [][ mode = "alert" =>
            \A s \in Slots :
               (/\ store[s] # <<>>
                /\ Len(store'[s]) = Len(store[s]) + 1
                /\ EntryData(LastRow(store'[s])) = EntryData(LastRow(store[s])))
                  => diffLog' = diffLog /\ sent' = sent
         ]_vars

\* the snapshot just stored equals the one before it, and the Diff Log holds
\* a diff of that fetch
C5_FalsePositive ==
    /\ mode = "alert"
    /\ \E s \in Slots :
          /\ Len(store[s]) = 3
          /\ EntryData(store[s][3]) = EntryData(store[s][2])
          /\ \E i \in 1..Len(diffLog) :
                /\ diffLog[i].ticker = s[2]
                /\ diffLog[i].date = store[s][3][<<"date">>]
                /\ diffLog[i].old = NaN

TopKeys(r) == {p[1] : p \in DOMAIN r}

CountDiffs(diffs, kind, key) ==
    Cardinality({i \in 1..Len(diffs) :
                    diffs[i].diff_type = kind /\ diffs[i].changed_key = key})

\* C6: for every key of the previous record that is absent from the current
\* one the diffs hold exactly one remove diff whose changed_key is that key,
\* and for every key of the current record absent from the previous one
\* exactly one add diff whose changed_key is that key, top-level keys and
\* several keys at once included, none of them with an empty changed_key.
C6_AddRemovePerKey ==
    dDone /\ dPrev # <<>> =>
        /\ \A k \in TopKeys(dPrev[1]) \ TopKeys(dCur) :
              CountDiffs(dOut.alert, "remove", <<k>>) = 1
        /\ \A k \in TopKeys(dCur) \ TopKeys(dPrev[1]) :
              CountDiffs(dOut.alert, "add", <<k>>) = 1
        /\ \A i \in 1..Len(dOut.alert) :
              dOut.alert[i].diff_type \in {"add", "remove"}
                  => dOut.alert[i].changed_key # <<>>

\* two top-level keys were removed and the diffs hold one remove diff, of
\* the first key's value, under the empty changed_key
C6_Collapsed ==
    /\ dDone
    /\ dPrev = << (<<"tierCode">> :> "PN") @@ (<<"a">> :> "QB") >>
    /\ DOMAIN dCur = {}
    /\ Len(dOut.alert) = 1
    /\ dOut.alert[1].diff_type = "remove"
    /\ dOut.alert[1].changed_key = <<>>
    /\ dOut.alert[1].old = "PN"

StoreKinds == {"find", "insert"}

StoreFailed == \E r \in raised : r[3] \in StoreKinds

\* C8: a store connectivity failure raised while one entity is collected
\* ends the cycle and the process, in the sequential orchestrator and in a
\* worker-pool task alike: after it no entity is collected, no task is
\* submitted and no cycle is started.
C8_StoreFailureEscalates ==
    [][ (mode \in {"alert", "queue"} /\ StoreFailed) =>
            /\ visited' = visited
            /\ store' = store
            /\ cycle' = cycle
            /\ DOMAIN tasks' \subseteq DOMAIN tasks
      ]_vars

\* the store failed in a task of the first cycle and the second cycle has
\* pulled its messages
C8_Swallowed ==
    /\ mode = "queue"
    /\ \E r \in raised : r[3] \in StoreKinds /\ r[4] = 1
    /\ cycle = 2
    /\ rpc = "submit"
    /\ tasks = <<>>
    /\ received # <<>>

NonSons == {TICKER_COLLECTIONS[i] : i \in 1..Len(TICKER_COLLECTIONS)} \ all_sons

\* C9: a failure of one entity's collection that is not a store failure does
\* not end the cycle: the sequential loop goes on with the next entity and
\* visits every entity of every collector, and a worker task goes on with
\* the next entity type and ends having attempted every type it collects.
C9_FailureIsolated ==
    /\ [](mode = "alert" /\ opc = "done" => visited = Slots)
    /\ [](mode = "alert" /\ opc = "terminated" => StoreFailed)
    /\ [](mode = "queue" =>
            \A t \in DOMAIN tasks :
                tasks[t].status = "done" => \A name \in NonSons : <<name, t>> \in visited)
    /\ [][ \A r \in raised' \ raised :
              r[3] \notin StoreKinds =>
                 /\ mode = "alert" =>
                      /\ opc' # "terminated"
                      /\ <<ci', ti'>> # <<ci, ti>> \/ opc' = "done"
                 /\ mode = "queue" =>
                      /\ tasks'[r[2]].status = "running"
                      /\ tasks'[r[2]].idx = tasks[r[2]].idx + 1
         ]_vars

\* a fetch of the first ticker failed and the run ended having stored and
\* diffed the second ticker
C9_Witness ==
    /\ mode = "alert"
    /\ opc = "done"
    /\ ~ debug
    /\ <<"symbols", "T1", "error">> \in raised
    /\ Len(store[<<"symbols", "T2">>]) = 2
    /\ \E i \in 1..Len(diffLog) : diffLog[i].ticker = "T2"

\* the step is an iteration on s whose fetch_data returned
Fetched(s) ==
    /\ \A r \in raised' \ raised : r[3] = "telegram"
    /\ \/ mode = "alert" /\ s = AlertSlot /\ clock' # clock
       \/ /\ mode = "queue"
          /\ s[2] \in DOMAIN tasks \cap DOMAIN tasks'
          /\ tasks[s[2]].idx <= Len(TICKER_COLLECTIONS)
          /\ tasks'[s[2]].idx = tasks[s[2]].idx + 1
          /\ s[1] = TICKER_COLLECTIONS[tasks[s[2]].idx]
          /\ s[1] \notin all_sons

Kept(s) ==
    /\ Len(store'[s]) >= Len(store[s])
    /\ SubSeq(store'[s], 1, Len(store[s])) = store[s]

Stored(s) == IF Fetched(s) /\ ~ (mode = "alert" /\ debug) THEN 1 ELSE 0

TaskSnapshots(s) ==
    Cardinality({i \in 1..Len(store[s]) : store[s][i][<<"date">>] = tasks[s[2]].date})

\* the current task of ticker t met no failure
Unfailed(t) == \A r \in raised : ~ (r[2] = t /\ r[4] = cycle)

RECURSIVE TaskWork(_)
TaskWork(T) ==
    IF T = {} THEN 0
    ELSE LET t == CHOOSE x \in T : TRUE
         IN (IF tasks[t].status = "running"
             THEN Len(TICKER_COLLECTIONS) + 2 - tasks[t].idx ELSE 0) + TaskWork(T \ {t})

\* the steps the cycle still has to take before the executor has shut down
Work == Len(received) * (Len(TICKER_COLLECTIONS) + 2) + TaskWork(DOMAIN tasks)

\* C11: whatever the interleaving of the pool's tasks, a cycle that was
\* pulled completes (it can always take a step and every step leaves it
\* with less to do), and in it every ticker's task appends exactly one
\* snapshot for each entity type it collects, never two, and touches no
\* other ticker's snapshots; with more tickers than workers every ticker is
\* served over the cycles.
C11_OneSnapshotPerTask ==
    /\ [](mode = "queue" =>
            /\ Cardinality(DOMAIN tasks) <= MAX_MESSAGES
            /\ \A s \in QueueSlots :
                  /\ \A i \in 1..Len(store[s]) : store[s][i][<<"ticker">>] = s[2]
                  /\ s[2] \in DOMAIN tasks =>
                        /\ TaskSnapshots(s) <= 1
                        /\ (tasks[s[2]].status = "done" /\ Unfailed(s[2]) /\ s[1] \in NonSons)
                              => TaskSnapshots(s) = 1)
    /\ [](mode = "queue" /\ rpc = "submit" =>
            IF Work = 0 THEN ENABLED QShutdown
            ELSE (ENABLED QSubmit) \/ \E t \in DOMAIN tasks : tasks[t].status = "running")
    /\ [][ (mode = "queue" /\ rpc = "submit" /\ rpc' = "submit") => Work' < Work ]_vars

\* three tickers were served by a pool of two workers in two cycles, and
\* each has one snapshot of every entity type that is collected
C11_Witness ==
    /\ mode = "queue"
    /\ MAX_MESSAGES < Len(QueueTickers)
    /\ rpc = "pull"
    /\ raised = {}
    /\ {a[2] : a \in acked} = SeqRange(QueueTickers)
    /\ \A s \in QueueSlots : Len(store[s]) = IF s[1] \in NonSons THEN 1 ELSE 0

\* the decorated diffs whose key the entity type ignores
Denied == {i \in 1..Len(dOut.raw) : dOut.raw[i].changed_key \in dConf.filter_keys}

\* C12: no diff that get_diffs returns for the Diff Log has a changed_key in
\* the filter_keys of its entity type, and the alerter renders no message for
\* such a diff; the diffs it drops for this reason are exactly the denied ones
C12_FilterKeysDropped ==
    (mode = "diff" /\ dDone) =>
        /\ \A i \in 1..Len(dOut.collect) : dOut.collect[i].changed_key \notin dConf.filter_keys
        /\ \A i \in Denied : dOut.aedit[i] = <<>>
        /\ \A i \in 1..Len(dOut.raw) :
              (dOut.cedit[i] # <<>> /\ i \notin Denied)
                  => \E j \in 1..Len(dOut.collect) : dOut.collect[j] = dOut.raw[i]

C12_Witness ==
    /\ mode = "diff"
    /\ dDone
    /\ Denied # {}
    /\ \E i \in Denied : dOut.cedit[i] # <<>>
    /\ dOut.collect # <<>>

\* the logged diffs whose changed_key is ''
EmptyKeyed == {i \in 1..Len(dOut.logged) : dOut.logged[i].changed_key = <<>>}

Absent(list, x) == Rank(list, x) = Len(list)

Unranked(diff, hierarchy) ==
    /\ diff.changed_key \in DOMAIN hierarchy
    /\ \/ Absent(hierarchy[diff.changed_key], diff.old)
       \/ Absent(hierarchy[diff.changed_key], diff.new)

\* C14: when the key has a rank list and old or new (None for an add or a
\* remove included) is not in it, the collector's and the alerter's
\* _edit_diff log a warning and return the diff as it is: the hierarchy
\* deletes no such diff, and get_diffs returns it unless filter_keys denies it
C14_HierarchyFailOpen ==
    /\ \A d \in {Step("Z", "A"), Step("A", "Z"), Step("Z", "Y"), Step(None, "A"), Step("B", None)} :
          /\ collector_edit_diff(d, CBA) = <<d>>
          /\ collector_edit_warns(d, CBA)
          /\ alerter_edit_diff(d, CBA, {}) = <<d>>
    /\ (mode = "diff" /\ dDone) =>
          \A i \in 1..Len(dOut.raw) :
              Unranked(dOut.raw[i], dConf.hierarchy) =>
                  /\ dOut.cedit[i] = <<dOut.raw[i]>>
                  /\ collector_edit_warns(dOut.raw[i], dConf.hierarchy)
                  /\ dOut.raw[i].changed_key \notin dConf.filter_keys =>
                        /\ dOut.aedit[i] = <<dOut.raw[i]>>
                        /\ \E j \in 1..Len(dOut.collect) : dOut.collect[j] = dOut.raw[i]

C14_Witness ==
    /\ mode = "diff"
    /\ dDone
    /\ dConf.hierarchy = Securities_get_hierarchy
    /\ \E i \in 1..Len(dOut.raw) :
          /\ dOut.raw[i].changed_key = <<"tierCode">>
          /\ dOut.raw[i].diff_type = "add"
          /\ dOut.raw[i].old = None
          /\ Unranked(dOut.raw[i], dConf.hierarchy)
          /\ dOut.aedit[i] = <<dOut.raw[i]>>
          /\ \E j \in 1..Len(dOut.collect) : dOut.collect[j] = dOut.raw[i]

\* the digest of the running cycle has reached subscription u or waits in a
\* one-shot task for it
Scheduled(u) ==
    \A i \in DigestIds(digest) :
        got[u][i] >= 1 \/ \E task \in timers : task.sub = u /\ i \in task.ids

\* the step sets the delivered flag of entry i and changes nothing else in the log
MarksOnly(i) ==
    /\ i \in 1..Len(diffLog)
    /\ ~ Delivered(diffLog[i])
    /\ diffLog' = [diffLog EXCEPT ![i] = mark(@)]

\* C15: the delivered flag is set only in MARKING, which is entered only from
\* DISPATCHING, which is entered only by the step that sends the digest to the
\* immediate subscriptions and schedules it for every delayed one; each step
\* that touches an entry of the log marks one drained diff, by its own
\* identity; when the cycle returns to IDLE every drained diff is marked, and
\* a diff that no cycle drained is not marked
C15_MarkAfterDispatch ==
    /\ [](mode = "dispatch" =>
            /\ dpc \in {"DISPATCHING", "MARKING"} => \A u \in DelayedSubs : Scheduled(u)
            /\ \A i \in 1..Len(diffLog) : Delivered(diffLog[i]) => drainCount[i] >= 1
            /\ dpc # "MARKING" => marked = 0)
    /\ [][ (mode = "dispatch") =>
            /\ (dpc' = "MARKING" /\ dpc # "MARKING") => dpc = "DISPATCHING"
            /\ (dpc' = "DISPATCHING" /\ dpc # "DISPATCHING") =>
                  /\ dpc = "BATCHING"
                  /\ \A u \in ImmediateSubs :
                        \/ got'[u] = Bump(got[u], DigestIds(digest))
                        \/ got'[u] = got[u]
            /\ (\E i \in 1..Len(diffLog) : diffLog'[i] # diffLog[i]) =>
                  /\ dpc = "MARKING"
                  /\ marked < Len(drained)
                  /\ MarksOnly(drained[marked + 1])
            /\ (dpc = "MARKING" /\ dpc' = "IDLE") =>
                  \A k \in 1..Len(drained) : Delivered(diffLog[drained[k]]) ]_vars

C15_Witness ==
    /\ mode = "dispatch"
    /\ crashes = 0
    /\ dpc = "IDLE"
    /\ Len(diffLog) = 2
    /\ Delivered(diffLog[1]) /\ markCount[1] = 1
    /\ ~ Delivered(diffLog[2]) /\ drainCount[2] = 0 /\ ~ DigestOnly(diffLog[2])
    /\ \E task \in timers : 1 \in task.ids

\* the sends that did not happen, to the chats that accept messages, for the
\* diffs logged at the indexes js
Unsent(js, s) == {p \in (SeqRange(Users) \ badChat) \X js : p \notin s}

\* C16: a send that fails, with whatever error of the channel, keeps no
\* other send from happening: of the sends due for the diffs that one
\* iteration of Alert.collect logs, to the chats that do not answer
\* BadRequest, at most the one that raised is missing
C16_SendFailureIsolated ==
    [][ (mode = "alert") =>
            Cardinality(Unsent((Len(diffLog) + 1)..Len(diffLog'), sent')) <= 1 ]_vars

\* a telegram error that is not BadRequest was raised once, and more sends
\* than the one that raised are missing
C16_Blocked ==
    /\ mode = "alert"
    /\ Cardinality({r \in raised : r[3] = "telegram"}) = 1
    /\ Cardinality(Unsent(1..Len(diffLog), sent)) >= 2

\* the one-shot tasks that hold diff i for subscription u
Pending(u, i) == {task \in timers : task.sub = u /\ i \in task.ids}

\* C17: an immediate subscription is sent the digest by the step that enters
\* DISPATCHING; that step sends nothing to a delayed subscription and leaves
\* it a one-shot task with the same digest; a delayed subscription receives
\* only from such a task, which is then gone and is at least FixedDelay old;
\* without a crash no diff reaches a delayed subscription twice, and a
\* pending task fires unless the dispatcher goes down; the loop does not
\* wait for the tasks: from IDLE it can drain again while they are pending
C17_TwoLanes ==
    /\ [][ (mode = "dispatch") =>
            /\ \A u \in ImmediateSubs :
                  got'[u] # got[u] =>
                      /\ dpc = "BATCHING" /\ dpc' = "DISPATCHING"
                      /\ got'[u] = Bump(got[u], DigestIds(digest))
            /\ (dpc = "BATCHING" /\ dpc' = "DISPATCHING" /\ digest # <<>>) =>
                  \A u \in DelayedSubs :
                      /\ got'[u] = got[u]
                      /\ [sub |-> u, ids |-> DigestIds(digest), age |-> 0] \in timers'
            /\ \A u \in DelayedSubs :
                  got'[u] # got[u] =>
                      \E task \in timers :
                          /\ task.sub = u
                          /\ task.age >= FixedDelay
                          /\ timers' = timers \ {task}
                          /\ got'[u] = Bump(got[u], task.ids)
                          /\ dpc' = dpc ]_vars
    /\ [](NeverCrashed =>
            \A u \in DelayedSubs, i \in LogIds : got[u][i] + Cardinality(Pending(u, i)) <= 1)
    /\ [](mode = "dispatch" /\ dpc = "IDLE" => ENABLED DispDrain)
    /\ \A u \in DelayedSubs, i \in LogIds :
          (mode = "dispatch" /\ Pending(u, i) # {}) ~> (got[u][i] >= 1 \/ dpc = "DOWN")

C17_Witness ==
    /\ NeverCrashed
    /\ dpc = "DRAINING"
    /\ drained = <<2>>
    /\ got["u1"][1] = 1
    /\ got["u3"][1] = 0
    /\ \E task \in Pending("u3", 1) : task.age < FixedDelay

\* two stored snapshots agree on every compared field: a field is absent in
\* both or has the same value in both
SameFields(rows, i, j) ==
    \A k \in Columns(rows) \ {"date", "verifiedDate"} : Cell(rows[i], k) = Cell(rows[j], k)

History3 ==
    << (<<"x">> :> "1") @@ (<<"date">> :> "d1"),
       (<<"x">> :> "1") @@ (<<"date">> :> "d2"),
       (<<"x">> :> "2") @@ (<<"date">> :> "d3") >>

\* C18: the history view of a stored history holds its first snapshot and
\* exactly the later snapshots that differ from the snapshot stored just
\* before them in a compared field (date and verifiedDate are not compared);
\* [{x:1,t:1},{x:1,t:2},{x:2,t:3}] gives rows 1 and 3; no two consecutive rows
\* of the view agree on every compared field
C18_DuplicateCollapse ==
    /\ sorted_history_rows(History3) = <<1, 3>>
    /\ mode = "alert" =>
          \A s \in Slots :
              LET rows == store[s]
                  view == sorted_history_rows(rows)
              IN /\ rows # <<>> => view # <<>> /\ view[1] = 1
                 /\ \A i \in 2..Len(rows) :
                       (i \in SeqRange(view)) <=> ~ SameFields(rows, i, i - 1)
                 /\ \A j \in 1..(Len(view) - 1) : ~ SameFields(rows, view[j], view[j + 1])

\* a snapshot is in the view although it agrees with its predecessor on every
\* compared field: both lack a field that an older snapshot has
C18_NotCollapsed ==
    /\ mode = "alert"
    /\ \E s \in Slots :
          \E i \in 2..Len(store[s]) :
              /\ i \in SeqRange(sorted_history_rows(store[s]))
              /\ SameFields(store[s], i, i - 1)
              /\ \E k \in Columns(store[s]) : Cell(store[s][i], k) = NaN

\* C19: an iteration of Alert.collect whose ticker is suspected invalid logs
\* it and ends: nothing is inserted in the ticker's collection or in the
\* diffs, nothing is sent, the run is not terminated and goes on with the
\* next ticker; the ticker stays in the list: every later collector still
\* runs on it
C19_InvalidSkipped ==
    /\ [][ (mode = "alert") =>
            \A r \in raised' \ raised :
                r[3] = "invalid" =>
                    /\ r = <<AlertSlot[1], AlertSlot[2], "invalid">>
                    /\ store' = store
                    /\ diffLog' = diffLog
                    /\ sent' = sent
                    /\ opc' # "terminated"
                    /\ <<ci', ti'>> # <<ci, ti>> \/ opc' = "done" ]_vars
    /\ [](mode = "alert" /\ opc = "done" =>
            \A r \in raised :
                r[3] = "invalid" => \A k \in 1..Len(COLLECTORS) : <<COLLECTORS[k], r[2]>> \in visited)

\* T1 was suspected invalid under the first collector: nothing was stored for
\* it there, the second ticker was stored, and the second collector stored T1
C19_Witness ==
    /\ mode = "alert"
    /\ opc = "done"
    /\ ~ debug
    /\ raised = {<<"symbols", "T1", "invalid">>}
    /\ Len(store[<<"symbols", "T2">>]) = Len(store[<<"symbols", "T1">>]) + 1
    /\ Len(store[<<"profile", "T1">>]) = Len(store[<<"symbols", "T1">>]) + 1

\* the times the task of ticker s[2] called the collector of type s[1]: the
\* snapshots it stored and the failures it logged or raised
Attempts(s) ==
    TaskSnapshots(s) + Cardinality({r \in raised : r[1] = s[1] /\ r[2] = s[2] /\ r[4] = cycle})

SameField(d, e) == d.source = e.source /\ d.changed_key = e.changed_key

\* C20: a task never builds the collector of a type that is a son of a
\* composed collector: such a type has no snapshot, no failure and no diff; a
\* task that went through its loop called the collector of every other type
\* exactly once; no two diffs that a task gathers or publishes are on the
\* same field of the same type
C20_SonsSkipped ==
    /\ [](mode = "queue" =>
            /\ \A s \in QueueSlots :
                  /\ s[1] \in all_sons =>
                        /\ store[s] = <<>>
                        /\ s \notin visited
                        /\ \A r \in raised : r[1] # s[1]
                  /\ s[2] \in DOMAIN tasks =>
                        /\ Attempts(s) <= 1
                        /\ (tasks[s[2]].status = "done" /\ s[1] \in NonSons) => Attempts(s) = 1
                        /\ (tasks[s[2]].status = "running" /\ s[1] \in NonSons) =>
                              (Attempts(s) = 1 <=>
                                  \E k \in 1..(tasks[s[2]].idx - 1) : TICKER_COLLECTIONS[k] = s[1])
            /\ \A t \in DOMAIN tasks :
                  LET ds == tasks[t].all_diffs
                  IN /\ \A i \in 1..Len(ds) : ds[i].source \in NonSons
                     /\ \A i, j \in 1..Len(ds) : SameField(ds[i], ds[j]) => i = j
            /\ \A m \in 1..Len(published) :
                  \A i, j \in 1..Len(published[m].diffs) :
                      /\ published[m].diffs[i].source \in NonSons
                      /\ SameField(published[m].diffs[i], published[m].diffs[j]) => i = j)
    /\ [][ (mode = "queue") =>
            \A s \in QueueSlots :
                (store'[s] # store[s] \/ s \in visited' \ visited) =>
                    /\ s[1] \notin all_sons
                    /\ s[2] \in DOMAIN tasks
                    /\ TICKER_COLLECTIONS[tasks[s[2]].idx] = s[1] ]_vars

\* a task ended having skipped the son and collected the two other types,
\* and it published the diff of a type it had stored in an earlier cycle
C20_Witness ==
    /\ mode = "queue"
    /\ \E t \in DOMAIN tasks :
          /\ tasks[t].status = "done"
          /\ tasks[t].all_diffs # <<>>
          /\ \A name \in all_sons : Attempts(<<name, t>>) = 0 /\ store[<<name, t>>] = <<>>
          /\ \A name \in NonSons : Attempts(<<name, t>>) = 1

\* the tasks the executor holds that have not ended
InFlight == {t \in DOMAIN tasks : tasks[t].status = "running"}

\* C21: the executor never holds more tasks than it has workers; a task is
\* submitted only between a pull and the shutdown that follows it; the
\* executor is left only when every task it holds has ended, by acknowledging
\* or by a failure; and a pull, which starts the next cycle, finds no task of
\* the cycle before
C21_PoolDrains ==
    /\ [](mode = "queue" =>
            /\ Cardinality(DOMAIN tasks) <= MAX_MESSAGES
            /\ Cardinality(InFlight) <= MAX_MESSAGES
            /\ Len(received) + Cardinality(DOMAIN tasks) <= MAX_MESSAGES
            /\ rpc = "pull" => tasks = <<>> /\ received = <<>>)
    /\ [][ (mode = "queue") =>
            /\ cycle' # cycle => tasks = <<>> /\ tasks' = <<>> /\ rpc' = "submit"
            /\ (DOMAIN tasks' \ DOMAIN tasks # {}) => rpc = "submit" /\ rpc' = "submit"
            /\ (rpc = "submit" /\ rpc' = "pull") =>
                  /\ InFlight = {}
                  /\ \A t \in DOMAIN tasks : tasks[t].status \in {"done", "failed"}
            /\ \A t \in DOMAIN tasks :
                  t \notin DOMAIN tasks' => rpc = "submit" /\ rpc' = "pull" ]_vars

\* the second cycle runs with a full pool after the first cycle's tasks ended
C21_Witness ==
    /\ mode = "queue"
    /\ cycle = 2
    /\ rpc = "submit"
    /\ Cardinality(InFlight) = MAX_MESSAGES
    /\ \E a \in acked : a[1] = 1

\* every field of a diff of the queue-driven collector is there
FullyConstructed(d) ==
    DOMAIN d = {"ticker", "date", "changed_key", "old", "new", "diff_type", "source"}

\* the decorated diffs that were computed when the comparison failed
ComputedBefore == SubSeq(dOut.raw, 1, dOut.failed_at[1])

\* C22: a get_diffs whose comparison fails when k diffs have been computed
\* returns a list, the one the filter leaves of those k diffs, and every diff
\* it returns has all its fields
C22_PartialFailure ==
    (mode = "diff" /\ dDone /\ dOut.failed_at # <<>>) =>
        /\ dOut.returned # <<>>
        /\ dOut.returned[1] =
              collector_edit_diffs(ComputedBefore, dConf.hierarchy, dConf.filter_keys)
        /\ \A i \in 1..Len(dOut.returned[1]) : FullyConstructed(dOut.returned[1][i])

\* the comparison failed after a diff that the filter keeps, and get_diffs
\* returned None
C22_NoneReturned ==
    /\ mode = "diff"
    /\ dDone
    /\ dOut.failed_at = <<1>>
    /\ Len(dOut.raw) >= 2
    /\ collector_edit_diffs(ComputedBefore, dConf.hierarchy, dConf.filter_keys) # <<>>
    /\ dOut.returned = <<>>

-----------------------------------------------------------------------------
\* C23: for every diff Securities.edit_diff returns a diff for, the returned
\* diff has the diff_type, the ticker, the date, the source and the changed_key
\* of the input diff: only old and new are rewritten.
C23_EditKeepsFrame ==
    (mode = "edit" /\ eOut # <<>> /\ eOut[1].edit_diff.raises = "") =>
        /\ Len(eOut[1].edit_diff.diff) = 1
        /\ \A f \in DOMAIN eDiff[1] \ {"old", "new"} :
               eOut[1].edit_diff.diff[1][f] = eDiff[1][f]
        /\ DOMAIN eOut[1].edit_diff.diff[1] = DOMAIN eDiff[1]

\* edit_diff reformatted the values of a remove diff and of a change diff
C23_Witness ==
    /\ mode = "edit"
    /\ eOut # <<>>
    /\ eOut[1].edit_diff.raises = ""
    /\ eDiff[1].diff_type = "change"
    /\ eDiff[1].changed_key = <<"authorizedShares">>
    /\ eOut[1].edit_diff.diff[1].new = Annotated(70, 0 - 30, 100)
    /\ eOut[1].edit_diff.diff[1].old = Formatted(100)
    /\ eOut[1].edit_diff.diff[1].diff_type = "change"

-----------------------------------------------------------------------------
\* the display names the tierDisplayName rank list holds
RankedNames ==
    {Securities_get_hierarchy[<<"tierDisplayName">>][i] :
        i \in 1..Len(Securities_get_hierarchy[<<"tierDisplayName">>])}

\* C27: the two tier hierarchies of Securities agree: for every transition
\* between two tier codes of the translation table, the tierCode rank list
\* suppresses it exactly when the tierDisplayName rank list suppresses the
\* transition between the translated names, and every display name of the
\* tierDisplayName list is the translation of some tier code.
C27_HierarchiesAgree ==
    (mode = "edit" /\ eOut # <<>> /\ TierTransition(eDiff[1])) =>
        /\ (eOut[1].by_code[1] = <<>>) <=> (eOut[1].by_name[1] = <<>>)
        /\ \A n \in RankedNames : \E c \in DOMAIN tier_translation : tier_translation[c] = n

\* EM -> GM is suppressed as a tierCode change and passes as the
\* tierDisplayName change 'Expert Market' -> 'Grey Market'
C27_Disagree ==
    /\ mode = "edit"
    /\ eOut # <<>>
    /\ TierTransition(eDiff[1])
    /\ eDiff[1].old = StrV("EM")
    /\ eDiff[1].new = StrV("GM")
    /\ eOut[1].by_code[1] = <<>>
    /\ eOut[1].by_name[1] # <<>>
    /\ eOut[1].by_name[1][1].old = "Expert Market"
    /\ eOut[1].by_name[1][1].new = "Grey Market"

-----------------------------------------------------------------------------
\* old and new are both numbers and old is not 0
Computable(d) == int(d.new).raises = "" /\ int(d.old).raises = "" /\ int(d.old).n # 0

\* C28: calc_ratio never raises: it is (new - old) / old when both are numbers
\* and old is not 0, and 0 when old or new is missing or not a number or old is
\* 0; so edit_diff and is_relevant_diff return a result for every diff whose
\* new value is an integer.
C28_RatioTotal ==
    (mode = "edit" /\ eOut # <<>>) =>
        /\ eOut[1].calc_ratio.raises = ""
        /\ Computable(eDiff[1]) =>
               eOut[1].calc_ratio.num * int(eDiff[1].old).n
                   = (int(eDiff[1].new).n - int(eDiff[1].old).n) * eOut[1].calc_ratio.den
        /\ ~ Computable(eDiff[1]) => eOut[1].calc_ratio.num = 0
        /\ eDiff[1].new.kind = "int" =>
               /\ eOut[1].edit_diff.raises = ""
               /\ eOut[1].is_relevant_diff.raises = ""

\* a share count appears for the first time: calc_ratio and edit_diff leave
\* by TypeError, is_relevant_diff returns True without calling calc_ratio
C28_Raises ==
    /\ mode = "edit"
    /\ eOut # <<>>
    /\ eDiff[1].diff_type = "add"
    /\ eDiff[1].changed_key = <<"authorizedShares">>
    /\ eDiff[1].old = NoneV
    /\ eDiff[1].new = IntV(100)
    /\ eOut[1].calc_ratio.raises = "TypeError"
    /\ eOut[1].edit_diff.raises = "TypeError"
    /\ eOut[1].is_relevant_diff = [raises |-> "", value |-> "True"]

-----------------------------------------------------------------------------
\* the store failed in the task that cycle c ran for ticker t
StoreFailedIn(c, t) == \E r \in raised : r[2] = t /\ r[4] = c /\ r[3] \in StoreKinds

-----------------------------------------------------------------------------
\* C24: drain and mark of a dispatcher instance are separate steps, and an
\* instance drains exactly the diffs it finds undelivered; so with two
\* instances on one Diff Log and no crash a diff can be drained by both
\* before either marks it, and is then dispatched twice to the same
\* subscription (C24_DispatchedTwice is such a state).  A diff is dispatched
\* to a subscription no more often than instances drained it.
C24_TwoInstancesUnsafe ==
    /\ [](mode = "pair" =>
            /\ crashes = 0
            /\ \A i \in LogIds :
                  /\ drainCount[i] <= Cardinality(Instances)
                  /\ \A u \in DOMAIN got : got[u][i] <= drainCount[i])
    /\ [][ (mode = "pair") =>
            /\ drainCount' # drainCount => diffLog' = diffLog
            /\ diffLog' # diffLog => drainCount' = drainCount /\ got' = got
            /\ \A p \in Instances :
                  drained'[p] # drained[p] =>
                      \A k \in 1..Len(drained'[p]) : ~ Delivered(diffLog[drained'[p][k]])
      ]_vars

\* both instances drained the diff before either marked it, both sent it to
\* the immediate subscription, both marked it, and neither crashed
C24_DispatchedTwice ==
    /\ mode = "pair"
    /\ crashes = 0
    /\ \A p \in Instances : dpc[p] = "IDLE"
    /\ \E i \in 1..Len(diffLog), u \in ImmediateSubs :
          /\ drainCount[i] = 2
          /\ got[u][i] = 2
          /\ Delivered(diffLog[i])

\* C25: marking is idempotent: the update that sets a diff's delivered flag,
\* applied to a diff that is already delivered, leaves that diff and every
\* other diff of the Diff Log as they are, and it is not an error: the
\* MARKING step of the instance that comes second goes through.
C25_MarkIdempotent ==
    /\ [](mode = "pair" =>
            /\ \A i \in 1..Len(diffLog) :
                  /\ mark(mark(diffLog[i])) = mark(diffLog[i])
                  /\ Delivered(diffLog[i]) => mark(diffLog[i]) = diffLog[i]
            /\ \A p \in Instances :
                  (dpc[p] = "MARKING" /\ marked[p] < Len(drained[p])) => ENABLED PairMarkOne(p))
    /\ [][ (mode = "pair") =>
            \A i \in 1..Len(diffLog) :
                (markCount'[i] > markCount[i] /\ Delivered(diffLog[i])) =>
                    /\ diffLog' = diffLog
                    /\ \E p \in Instances : marked'[p] = marked[p] + 1
      ]_vars

\* a diff was marked by one instance and then again by the other
C25_MarkedTwice ==
    /\ mode = "pair"
    /\ \E i \in 1..Len(diffLog) :
          /\ markCount[i] = 2
          /\ Delivered(diffLog[i])
          /\ diffLog[i] = mark(diffLog[i])

====
